---- MODULE Spec2Model ----
(***************************************************************************)
(* Doc2Latex: the document tree builder (renumbering of chapter / section  *)
(* / subsection units) and the bracket markup compiler, modelled from the  *)
(* Python sources.                                                         *)
(*                                                                         *)
(* A unit's serial "c-s-z" is modelled as the triple <<c, s, z>>: the      *)
(* fields chapter/section/subsection are int() of the three parts of the   *)
(* serial (file_utils.save_docx_to_dict) and the f-strings of the builder  *)
(* print them back in decimal, so serials are taken in canonical decimal   *)
(* form.  A canonical tag "C-S-Z" is the triple of the three counters.     *)
(***************************************************************************)
EXTENDS Integers, Sequences, FiniteSets, TLC

VARIABLES
    units,               \* document_dict: the serials, in key (insertion) order
    idx,                 \* position of the for-loop over document_dict.keys()
    chapter_counter,
    section_counter,
    subsection_counter,
    nodes,               \* the treelib tree: nodes in insertion order (root left out)
    bstatus,             \* "building", "done", or the exception that ended the build
    berr,                \* what the exception message names
    text,                \* check_chinese_square_brackets_pairs: the argument
    pos,                 \* ... position of "for char in text"
    stack,               \* ... the stack of opening brackets
    vresult,             \* ... "running", or the value returned
    stext,               \* smart_split_list_items: the argument
    si,                  \* ... the index i (1-based here)
    current_item,
    url_depth,
    items,
    sdone,               \* ... TRUE once items is returned
    cuts,                \* history: the positions of the separators that ended an item
    para,                \* add_document_content: the raw paragraph
    pmode,               \* "raw", then "compile" (pre-pass, then parser) or "parse" (parser alone);
                         \* in the pre-pass taken by itself, the replacement done last
    pstring,             \* the string given to the outermost syntax_interpreter call
    assets,              \* the image names for which image_is_existed is true
    pserial,             \* serial: the unit identifier
    pstack,              \* the pending calls and appends of the recursion, next first
    sink,                \* ldoc: what has been appended, in order
    plog,                \* the logger calls, in order
    pstatus,             \* "running", "ok", or the exception raised
    perr,                \* what the exception message names
    wqueue,              \* get_ordered_document_dict: the queue of expand_tree
    ordered,             \* ... ordered_dict: the entries, in key (insertion) order
    wstatus,             \* ... "idle", "walking" or "done"
    gunits,              \* add_document_content: document_dict, units with their paragraphs
    gi,                  \* ... position of the loop over the units
    gj,                  \* ... position of the loop over the paragraphs (0: unit not begun)
    glatex,              \* ... latex_doc: what has been appended, in order
    gstatus,             \* ... "running", "ok", or the exception raised
    dunits,              \* validate_document_brackets: document_dict
    di,                  \* ... position of the loop over the units
    dj,                  \* ... position of the loop over the paragraphs
    all_errors,          \* ... the diagnostics collected
    dout,                \* ... the lines printed
    dlog,                \* ... the warnings given to the logger
    dstatus,             \* ... "running", "ok", or the exception raised
    derr,                \* ... what the exception message is about
    cfile,               \* load_module_config: what modules.json is
    cboxes,              \* ... the pair of tables returned
    cstatus,             \* ... "idle", "loaded", or the exception raised
    files,               \* load_all_documents: the names get_file_list returned, in its order
    lstatus,             \* ... "idle", "listed", then "loaded" (or "given": a caller's own dict)
    book_tree,           \* build_document_tree: self.book_tree, nodes in insertion order
    book_status,         \* ... "idle", "done", or the exception that ended the build
    book_err,            \* ... what the exception message names
    again_status,        \* "idle", or "again": the build runs on the ordered dict of the walk
    found,               \* process_all_handbooks: the handbooks of HANDBOOKS whose directory exists, in order
    fate,                \* ... for each of them, what its preparation and its pipeline will do
    handbooks,           \* ... self.handbooks: the names discover_handbooks found
    hi,                  \* ... position of the loop over self.handbooks.keys()
    processors,          \* ... self.processors: the names it holds, in insertion order
    results,             \* ... results: the names it holds, in insertion order
    hstatus              \* ... "idle", "running", "returned", or the exception that left it

treeVars == <<units, idx, chapter_counter, section_counter, subsection_counter,
              nodes, bstatus, berr>>

checkVars == <<text, pos, stack, vresult>>

splitVars == <<stext, si, current_item, url_depth, items, sdone, cuts>>

parseVars == <<para, pmode, pstring, assets, pserial, pstack, sink, plog, pstatus, perr>>

walkVars == <<wqueue, ordered, wstatus>>

genVars == <<gunits, gi, gj, glatex, gstatus>>

docVars == <<dunits, di, dj, all_errors, dout, dlog, dstatus, derr>>

cfgVars == <<cfile, cboxes, cstatus>>

loadVars == <<files, lstatus>>

bookVars == <<book_tree, book_status, book_err>>

againVars == <<again_status>>

hbVars == <<found, fate, handbooks, hi, processors, results, hstatus>>

vars == <<treeVars, checkVars, splitVars, parseVars, walkVars, genVars, docVars, cfgVars, loadVars, bookVars, againVars, hbVars>>

nonTreeVars == <<checkVars, splitVars, parseVars, walkVars, genVars, docVars, cfgVars, loadVars, bookVars, againVars, hbVars>>
nonCheckVars == <<treeVars, splitVars, parseVars, walkVars, genVars, docVars, cfgVars, loadVars, bookVars, againVars, hbVars>>
nonSplitVars == <<treeVars, checkVars, parseVars, walkVars, genVars, docVars, cfgVars, loadVars, bookVars, againVars, hbVars>>
nonParseVars == <<treeVars, checkVars, splitVars, walkVars, genVars, docVars, cfgVars, loadVars, bookVars, againVars, hbVars>>
nonWalkVars == <<treeVars, checkVars, splitVars, parseVars, genVars, docVars, cfgVars, loadVars, bookVars, againVars, hbVars>>
nonGenVars == <<treeVars, checkVars, splitVars, parseVars, walkVars, docVars, cfgVars, loadVars, bookVars, againVars, hbVars>>
nonDocVars == <<treeVars, checkVars, splitVars, parseVars, walkVars, genVars, cfgVars, loadVars, bookVars, againVars, hbVars>>
nonCfgVars == <<treeVars, checkVars, splitVars, parseVars, walkVars, genVars, docVars, loadVars, bookVars, againVars, hbVars>>
nonLoadVars == <<treeVars, checkVars, splitVars, parseVars, walkVars, genVars, docVars, cfgVars, bookVars, againVars, hbVars>>
nonBookVars == <<treeVars, checkVars, splitVars, parseVars, walkVars, genVars, docVars, cfgVars, loadVars, againVars, hbVars>>
nonAgainVars == <<treeVars, checkVars, splitVars, parseVars, walkVars, genVars, docVars, cfgVars, loadVars, bookVars, hbVars>>
nonHbVars == <<treeVars, checkVars, splitVars, parseVars, walkVars, genVars, docVars, cfgVars, loadVars, bookVars, againVars>>

----------------------------------------------------------------------------
(* Bounds *)

\* at most this many tokens in a text given to the bracket validator
MaxCheckLen == 6

\* at most this many tokens in a text given to the list splitter
MaxSplitLen == 5

\* at most this many units in one collection
MaxUnits == 5

\* the original numbers a unit's name can carry (with a gap, so that the
\* renumbering has something to compress)
Nums == {0, 1, 3}

Keys == Nums \X Nums \X Nums

----------------------------------------------------------------------------
(* Text.  A text is a sequence of tokens: one token per character, except
   that a LaTeX command opener such as \url{ is one token (no opener
   overlaps another or itself, so a left-to-right scan of the characters
   meets the same openers). *)

LB == "LB"               \* the opening bracket
RB == "RB"               \* the closing bracket
SEMI == ";"              \* half-width semicolon
FSEMI == "F;"            \* full-width semicolon
URL == "\\url{"          \* the five characters \url{
RBRACE == "}"
SPACE == " "
NL == "NL"               \* the newline character
COLON == ":"             \* half-width colon
FCOLON == "F:"           \* full-width colon
LBRACE == "{"
SLASHES == "//"          \* two slashes

\* keywords, one token each (a keyword is never met in pieces)
KwImage == "tupian"
KwTitle == "xiaobiaoti"
KwSubtitle == "xiaoxiaobiaoti"
KwBold == "jiacu"
KwFootnote == "jiaozhu"
KwRef == "yinyong"
KwBreak == "huanhang"
KwFigure == "tu"         \* the prefix of a figure reference

\* LaTeX written by the program; an opener with its brace is one token
TEXTBF == "\\textbf{"
TEXTCOLOR == "\\textcolor{"
FOOTNOTE == "\\footnote{"
REF == "\\ref{"
PAR == "\\par"
PARLIT == "\\\\par\\n"     \* the seven characters \\par\n, as str.replace writes them
HTTP == "http"
HTTPS == "https"
WWW == "www."
PERCENT == "%"
DASH == "-"
TermOld == "laodongpaiqian"   \* the key of TERM_DICT
TermNew == "laowupaiqian"     \* its value

TreeIdle ==
    /\ units = <<>>
    /\ idx = 0
    /\ chapter_counter = 0
    /\ section_counter = 0
    /\ subsection_counter = 0
    /\ nodes = <<>>
    /\ bstatus = "idle"
    /\ berr = [kind |-> "none", unit |-> <<>>, father |-> <<>>]

CheckIdle ==
    /\ text = <<>>
    /\ pos = 0
    /\ stack = <<>>
    /\ vresult = "idle"

SplitIdle ==
    /\ stext = <<>>
    /\ si = 0
    /\ current_item = <<>>
    /\ url_depth = 0
    /\ items = <<>>
    /\ sdone = FALSE
    /\ cuts = {}

ParseIdle ==
    /\ para = <<>>
    /\ pmode = "idle"
    /\ pstring = <<>>
    /\ assets = {}
    /\ pserial = <<>>
    /\ pstack = <<>>
    /\ sink = <<>>
    /\ plog = <<>>
    /\ pstatus = "idle"
    /\ perr = [kind |-> "none", serial |-> <<>>, syntax |-> <<>>]

WalkIdle ==
    /\ wqueue = <<>>
    /\ ordered = <<>>
    /\ wstatus = "idle"

GenIdle ==
    /\ gunits = <<>>
    /\ gi = 0
    /\ gj = 0
    /\ glatex = <<>>
    /\ gstatus = "idle"

DocIdle ==
    /\ dunits = <<>>
    /\ di = 0
    /\ dj = 0
    /\ all_errors = <<>>
    /\ dout = <<>>
    /\ dlog = <<>>
    /\ dstatus = "idle"
    /\ derr = "none"

CfgIdle ==
    /\ cfile = "none"
    /\ cboxes = <<>>
    /\ cstatus = "idle"

LoadIdle ==
    /\ files = <<>>
    /\ lstatus = "idle"

BookIdle ==
    /\ book_tree = <<>>
    /\ book_status = "idle"
    /\ book_err = [kind |-> "none", unit |-> <<>>, father |-> <<>>]

AgainIdle == again_status = "idle"

HbIdle ==
    /\ found = <<>>
    /\ fate = <<>>
    /\ handbooks = <<>>
    /\ hi = 0
    /\ processors = <<>>
    /\ results = <<>>
    /\ hstatus = "idle"

\* the loading of the units, the second builds and the handbooks
OtherIdle == LoadIdle /\ BookIdle /\ AgainIdle /\ HbIdle

\* the parts of the program that a specification leaves alone
RestIdle == GenIdle /\ DocIdle /\ CfgIdle /\ OtherIdle

RECURSIVE SeqsUpTo(_, _)
\* the texts of at most n tokens over an alphabet
SeqsUpTo(alphabet, n) ==
    IF n = 0 THEN {<<>>}
    ELSE LET shorter == SeqsUpTo(alphabet, n - 1)
         IN  shorter \cup
             {Append(p[1], p[2]) : p \in {q \in shorter \X alphabet : Len(q[1]) = n - 1}}

----------------------------------------------------------------------------
(* Helpers on serials *)

\* identifier of the root node
RootId == <<"root">>

NoErr == [kind |-> "none", unit |-> <<>>, father |-> <<>>]

\* ascending order of original positions
SerialLess(a, b) ==
    \/ a[1] < b[1]
    \/ a[1] = b[1] /\ a[2] < b[2]
    \/ a[1] = b[1] /\ a[2] = b[2] /\ a[3] < b[3]

RECURSIVE AscendingSeqs(_)
\* the key sequences of at most n serials in ascending order: what
\* load_all_documents leaves in document_dict
AscendingSeqs(n) ==
    IF n = 0 THEN {<<>>}
    ELSE LET shorter == AscendingSeqs(n - 1)
         IN  shorter \cup
             {Append(s, k) : <<s, k>> \in
                 {p \in shorter \X Keys :
                     /\ Len(p[1]) = n - 1
                     /\ (p[1] = <<>> \/ SerialLess(p[1][Len(p[1])], p[2]))}}

InDict(key, dict) == \E i \in 1..Len(dict) : dict[i] = key

HasNode(tree, id) == id = RootId \/ \E i \in 1..Len(tree) : tree[i].id = id

----------------------------------------------------------------------------
(* TreeManager.create_tree_from_dict / DocumentProcessor.build_document_tree *)

\* father_serial of a section-level unit: f"{doc_data['chapter']}-0-0"
SectionFather(serial) == <<serial[1], 0, 0>>

\* father_serial of a subsection-level unit:
\* f"{doc_data['chapter']}-{doc_data['section']}-0"
SubsectionFather(serial) == <<serial[1], serial[2], 0>>

\* a lookup of the father among the canonical tags given so far
FatherMissingCanonical(father, dict, tree) ==
    ~\E i \in 1..Len(tree) : tree[i].tag = father

\* "father_serial not in document_dict": the lookup is in the original dict
FatherMissing(father, dict, tree) == ~InDict(father, dict)

\* the chapter test left out
IsNamingErrorSkipped(serial) == FALSE

\* the chapter test of the innermost branch: doc_data["chapter"] == 0
IsNamingError(serial) == serial[1] = 0

\* subsection_counter set back by a new chapter
SubsectionResetByChapter(sub) == 0

\* subsection_counter after a new chapter: the code leaves it alone
SubsectionAfterChapter(sub) == sub

\* treelib Tree.create_node: the parent must already be a node of the tree and
\* the identifier must be new
CreateNodeError(tree, id, parent) ==
    IF HasNode(tree, id) THEN "DuplicatedNodeIdError"
    ELSE IF ~HasNode(tree, parent) THEN "NodeIDAbsentError"
    ELSE "none"

\* a node tagged with the chapter alone
CreateNodeChapterTag(tree, id, tag, parent) ==
    Append(tree, [id |-> id, tag |-> <<tag[1], 0, 0>>, parent |-> parent])

CreateNode(tree, id, tag, parent) ==
    Append(tree, [id |-> id, tag |-> tag, parent |-> parent])

Serial == units[idx]

Building == bstatus = "building" /\ idx <= Len(units)

\* one iteration of the loop, with the node (if any) it creates
Insert(tag, parent) ==
    LET e == CreateNodeError(nodes, Serial, parent)
    IN  IF e = "none"
        THEN /\ nodes' = CreateNode(nodes, Serial, tag, parent)
             /\ idx' = idx + 1
             /\ bstatus' = "building"
             /\ berr' = berr
        ELSE /\ nodes' = nodes
             /\ idx' = idx
             /\ bstatus' = e
             /\ berr' = [kind |-> e, unit |-> Serial, father |-> parent]

Raise(kind, father) ==
    /\ bstatus' = kind
    /\ berr' = [kind |-> kind, unit |-> Serial, father |-> father]
    /\ UNCHANGED <<nodes, idx>>

\* subsection == 0, section == 0, chapter == 0: raise NameError
BuildNamingError ==
    /\ Building
    /\ Serial[3] = 0 /\ Serial[2] = 0
    /\ IsNamingError(Serial)
    /\ Raise("NameError", <<>>)
    /\ UNCHANGED <<units, chapter_counter, section_counter, subsection_counter>>
    /\ UNCHANGED nonTreeVars

\* subsection == 0, section == 0, chapter != 0: a new chapter
BuildChapter ==
    /\ Building
    /\ Serial[3] = 0 /\ Serial[2] = 0
    /\ ~IsNamingError(Serial)
    /\ chapter_counter' = chapter_counter + 1
    /\ section_counter' = 0
    /\ subsection_counter' = SubsectionAfterChapter(subsection_counter)
    /\ Insert(<<chapter_counter + 1, 0, 0>>, RootId)
    /\ UNCHANGED units
    /\ UNCHANGED nonTreeVars

\* subsection == 0, section != 0: a new section
BuildSection ==
    /\ Building
    /\ Serial[3] = 0 /\ Serial[2] # 0
    /\ section_counter' = section_counter + 1
    /\ subsection_counter' = 0
    /\ IF FatherMissing(SectionFather(Serial), units, nodes)
       THEN Raise("AssertionError", SectionFather(Serial))
       ELSE Insert(<<chapter_counter, section_counter + 1, 0>>, SectionFather(Serial))
    /\ UNCHANGED <<units, chapter_counter>>
    /\ UNCHANGED nonTreeVars

\* subsection != 0: a new subsection
BuildSubsection ==
    /\ Building
    /\ Serial[3] # 0
    /\ subsection_counter' = subsection_counter + 1
    /\ IF FatherMissing(SubsectionFather(Serial), units, nodes)
       THEN Raise("AssertionError", SubsectionFather(Serial))
       ELSE Insert(<<chapter_counter, section_counter, subsection_counter + 1>>,
                   SubsectionFather(Serial))
    /\ UNCHANGED <<units, chapter_counter, section_counter>>
    /\ UNCHANGED nonTreeVars

\* the loop is over: return self.tree
BuildReturn ==
    /\ bstatus = "building"
    /\ idx > Len(units)
    /\ bstatus' = "done"
    /\ UNCHANGED <<units, idx, chapter_counter, section_counter, subsection_counter,
                   nodes, berr>>
    /\ UNCHANGED nonTreeVars

InitTree ==
    /\ units \in AscendingSeqs(MaxUnits)
    /\ idx = 1
    /\ chapter_counter = 0
    /\ section_counter = 0
    /\ subsection_counter = 0
    /\ nodes = <<>>
    /\ bstatus = "building"
    /\ berr = NoErr
    /\ WalkIdle
    /\ CheckIdle
    /\ SplitIdle
    /\ ParseIdle
    /\ RestIdle

(* TreeManager.get_ordered_document_dict, on the tree the build returned *)

\* f"{chapter_counter}-{section_counter}-{subsection_counter}": the decimal
\* digits of the three counters with dashes between them
Digits == <<"0", "1", "2", "3", "4", "5", "6", "7", "8", "9">>

RECURSIVE Str(_)
Str(n) == IF n < 10 THEN <<Digits[n + 1]>> ELSE Str(n \div 10) \o <<Digits[(n % 10) + 1]>>

FormatTag(tag) == Str(tag[1]) \o <<DASH>> \o Str(tag[2]) \o <<DASH>> \o Str(tag[3])

\* int(): the number a string of digits writes
RECURSIVE ParseInt(_)
ParseInt(d) ==
    IF d = <<>> THEN 0
    ELSE ParseInt(SubSeq(d, 1, Len(d) - 1)) * 10
         + (CHOOSE v \in 0..9 : Digits[v + 1] = d[Len(d)])

\* new_serial.split("-")
RECURSIVE SplitDash(_, _)
SplitDash(t, field) ==
    IF t = <<>> THEN <<field>>
    ELSE IF Head(t) = DASH THEN <<field>> \o SplitDash(Tail(t), <<>>)
    ELSE SplitDash(Tail(t), Append(field, Head(t)))

\* the successors of a node, in the order they were created
Successors(tree, id) == SelectSeq(tree, LAMBDA n : n.parent = id)

\* expand_tree with mode WIDTH: the successors go behind the queue
ExpandWidth(queue, expansion) == Tail(queue) \o expansion

\* expand_tree(mode=Tree.DEPTH, sorting=False): the successors of the node
\* that was yielded go before the rest of the queue
Expand(queue, expansion) == expansion \o Tail(queue)

\* ordered_dict[new_serial] = doc_data: a key that is there keeps its place
Put(dict, entry) ==
    IF \E i \in 1..Len(dict) : dict[i].key = entry.key
    THEN [i \in 1..Len(dict) |-> IF dict[i].key = entry.key THEN entry ELSE dict[i]]
    ELSE Append(dict, entry)

\* doc_data of a node with the numbers it was loaded with
RenumberedNotUpdated(node) ==
    [key |-> FormatTag(node.tag), id |-> node.id, serial |-> FormatTag(node.tag),
     chapter |-> node.id[1], section |-> node.id[2], subsection |-> node.id[3]]

\* doc_data of a node after its fields were overwritten from the tag
Renumbered(node) ==
    LET new_serial == FormatTag(node.tag)
        fields == SplitDash(new_serial, <<>>)
    IN  [key |-> new_serial, id |-> node.id, serial |-> new_serial,
         chapter |-> ParseInt(fields[1]), section |-> ParseInt(fields[2]),
         subsection |-> ParseInt(fields[3])]

\* the root is yielded first and skipped; its successors are the queue
WalkRoot ==
    /\ bstatus = "done"
    /\ wstatus = "idle"
    /\ wstatus' = "walking"
    /\ wqueue' = Successors(nodes, RootId)
    /\ UNCHANGED ordered
    /\ UNCHANGED nonWalkVars

\* the head of the queue is yielded: its entry is written, its successors
\* are expanded
WalkNode ==
    /\ wstatus = "walking"
    /\ wqueue # <<>>
    /\ ordered' = Put(ordered, Renumbered(Head(wqueue)))
    /\ wqueue' = Expand(wqueue, Successors(nodes, Head(wqueue).id))
    /\ UNCHANGED wstatus
    /\ UNCHANGED nonWalkVars

\* return ordered_dict
WalkReturn ==
    /\ wstatus = "walking"
    /\ wqueue = <<>>
    /\ wstatus' = "done"
    /\ UNCHANGED <<wqueue, ordered>>
    /\ UNCHANGED nonWalkVars

NextTree ==
    \/ BuildNamingError
    \/ BuildChapter
    \/ BuildSection
    \/ BuildSubsection
    \/ BuildReturn
    \/ WalkRoot
    \/ WalkNode
    \/ WalkReturn

SpecTree == InitTree /\ [][NextTree]_vars

----------------------------------------------------------------------------
(* create_tree_from_dict again, on what get_ordered_document_dict returned *)

\* the ordered dict as the builder reads it: for each key, in order, the
\* chapter, section and subsection of its entry
OrderedUnits ==
    [i \in 1..Len(ordered) |->
        <<ordered[i].chapter, ordered[i].section, ordered[i].subsection>>]

\* a fresh TreeManager and create_tree_from_dict(ordered_dict) up to its
\* loop: the root node, the counters at 0
BuildAgain ==
    /\ wstatus = "done"
    /\ again_status = "idle"
    /\ again_status' = "again"
    /\ units' = OrderedUnits
    /\ idx' = 1
    /\ chapter_counter' = 0
    /\ section_counter' = 0
    /\ subsection_counter' = 0
    /\ nodes' = <<>>
    /\ bstatus' = "building"
    /\ berr' = NoErr
    /\ UNCHANGED <<checkVars, splitVars, parseVars, walkVars, genVars, docVars, cfgVars,
                   loadVars, bookVars, hbVars>>

NextAgain ==
    \/ BuildAgain
    \/ NextTree

SpecAgain == InitTree /\ [][NextAgain]_vars

----------------------------------------------------------------------------
(* file_utils.sort_by_serial, DocumentProcessor.load_all_documents and
   DocumentProcessor.build_document_tree *)

\* at most this many files in the directory
MaxFiles == 3

\* the names of the files, x-y-z: chapters 1 and 101, with sections and
\* subsections numbered 1 and 101, and the name 0-0-0
LoadNums == {0, 1, 101}

LoadKeys ==
    {<<0, 0, 0>>, <<101, 0, 0>>} \cup {<<1, y, z>> : y \in LoadNums, z \in LoadNums}

RECURSIVE DistinctSeqs(_)
\* what get_file_list can return: at most n different names, in any order
DistinctSeqs(n) ==
    IF n = 0 THEN {<<>>}
    ELSE LET shorter == DistinctSeqs(n - 1)
         IN  shorter \cup
             {Append(p[1], p[2]) : p \in
                 {q \in shorter \X LoadKeys : Len(q[1]) = n - 1 /\ ~InDict(q[2], q[1])}}

\* the key negated: a descending sort
serial_compare_descending(serial) == 0 - (serial[1] * 10000 + serial[2] * 100 + serial[3])

\* serial_compare: x * 10000 + y * 100 + z (floats, exact for these numbers)
serial_compare(serial) == serial[1] * 10000 + serial[2] * 100 + serial[3]

RECURSIVE sort_by_serial(_)
\* sorted(file_list, key=serial_compare): a stable sort, so names with equal
\* keys stay in the order they came in
sort_by_serial(file_list) ==
    IF file_list = <<>> THEN <<>>
    ELSE LET n == Len(file_list)
             before == sort_by_serial(SubSeq(file_list, 1, n - 1))
             last == file_list[n]
             i == Cardinality({j \in 1..(n - 1) :
                                  serial_compare(before[j]) <= serial_compare(last)})
         IN  SubSeq(before, 1, i) \o <<last>> \o SubSeq(before, i + 1, n - 1)

RECURSIVE BookLoop(_, _, _, _, _, _)
RECURSIVE BookNode(_, _, _, _, _, _, _, _)

\* book_tree.create_node(identifier=serial, tag=new_tag, parent=...) and the
\* rest of the loop; treelib raises when the parent is no node of the tree
BookNode(dict, i, chapter, section, subsection, tree, tag, parent) ==
    LET e == CreateNodeError(tree, dict[i], parent)
    IN  IF e # "none"
        THEN [tree |-> tree, status |-> e,
              err |-> [kind |-> e, unit |-> dict[i], father |-> parent]]
        ELSE BookLoop(dict, i + 1, chapter, section, subsection,
                      CreateNode(tree, dict[i], tag, parent))

\* for serial in self.document_dict.keys(), from the i-th key on, with the
\* three counters and the tree as they are at that moment
BookLoop(dict, i, chapter, section, subsection, tree) ==
    IF i > Len(dict) THEN [tree |-> tree, status |-> "done", err |-> NoErr]
    ELSE LET serial == dict[i]
         IN  IF serial[3] = 0
             THEN IF serial[2] = 0
                  THEN IF serial[1] = 0
                       THEN [tree |-> tree, status |-> "NameError",
                             err |-> [kind |-> "NameError", unit |-> serial, father |-> <<>>]]
                       ELSE BookNode(dict, i, chapter + 1, 0, subsection, tree,
                                     <<chapter + 1, 0, 0>>, RootId)
                  ELSE IF ~InDict(<<serial[1], 0, 0>>, dict)
                       THEN [tree |-> tree, status |-> "AssertionError",
                             err |-> [kind |-> "AssertionError", unit |-> serial,
                                      father |-> <<serial[1], 0, 0>>]]
                       ELSE BookNode(dict, i, chapter, section + 1, 0, tree,
                                     <<chapter, section + 1, 0>>, <<serial[1], 0, 0>>)
             ELSE IF ~InDict(<<serial[1], serial[2], 0>>, dict)
                  THEN [tree |-> tree, status |-> "AssertionError",
                        err |-> [kind |-> "AssertionError", unit |-> serial,
                                 father |-> <<serial[1], serial[2], 0>>]]
                  ELSE BookNode(dict, i, chapter, section, subsection + 1, tree,
                                <<chapter, section, subsection + 1>>,
                                <<serial[1], serial[2], 0>>)

\* the build with the first unit passed over
build_document_tree_from_second(dict) == BookLoop(dict, 2, 0, 0, 0, <<>>)

\* build_document_tree on self.document_dict: the root, the counters at 0,
\* the loop over the keys
build_document_tree(dict) == BookLoop(dict, 1, 0, 0, 0, <<>>)

InitLoad ==
    /\ files \in DistinctSeqs(MaxFiles)
    /\ lstatus = "listed"
    /\ TreeIdle /\ WalkIdle /\ CheckIdle /\ SplitIdle /\ ParseIdle
    /\ GenIdle /\ DocIdle /\ CfgIdle /\ BookIdle /\ AgainIdle /\ HbIdle

\* load_all_documents: the names are sorted, then each file is put into
\* document_dict under its name
LoadAllDocuments ==
    /\ lstatus = "listed"
    /\ lstatus' = "loaded"
    /\ units' = sort_by_serial(files)
    /\ UNCHANGED <<files, idx, chapter_counter, section_counter, subsection_counter,
                   nodes, bstatus, berr>>
    /\ UNCHANGED <<checkVars, splitVars, parseVars, walkVars, genVars, docVars, cfgVars,
                   bookVars, againVars, hbVars>>

\* a caller of create_tree_from_dict with a dict of its own: the keys in the
\* order the caller put them in
GivenDict ==
    /\ lstatus = "listed"
    /\ lstatus' = "given"
    /\ units' = files
    /\ UNCHANGED <<files, idx, chapter_counter, section_counter, subsection_counter,
                   nodes, bstatus, berr>>
    /\ UNCHANGED <<checkVars, splitVars, parseVars, walkVars, genVars, docVars, cfgVars,
                   bookVars, againVars, hbVars>>

\* create_tree_from_dict up to its loop: the root node, the counters at 0
BuildStart ==
    /\ lstatus \in {"loaded", "given"}
    /\ bstatus = "idle"
    /\ bstatus' = "building"
    /\ idx' = 1
    /\ chapter_counter' = 0
    /\ section_counter' = 0
    /\ subsection_counter' = 0
    /\ nodes' = <<>>
    /\ UNCHANGED <<units, berr>>
    /\ UNCHANGED nonTreeVars

\* build_document_tree on the same document_dict, from the first line to
\* the return or the raise
BuildDocumentTree ==
    /\ lstatus \in {"loaded", "given"}
    /\ bstatus \notin {"idle", "building"}
    /\ wstatus = "idle"
    /\ book_status = "idle"
    /\ book_tree' = build_document_tree(units).tree
    /\ book_status' = build_document_tree(units).status
    /\ book_err' = build_document_tree(units).err
    /\ UNCHANGED nonBookVars

NextLoad ==
    \/ LoadAllDocuments
    \/ GivenDict
    \/ BuildStart
    \/ BuildDocumentTree
    \/ NextTree

SpecLoad == InitLoad /\ [][NextLoad]_vars

----------------------------------------------------------------------------
(* text_utils.check_chinese_square_brackets_pairs *)

CheckAlphabet == {LB, RB, "a"}

\* a value of True at the end whatever is left on the stack
FinalResultAlways(stk) == "true"

\* return len(stack) == 0
FinalResult(stk) == IF Len(stk) = 0 THEN "true" ELSE "false"

Checking == vresult = "running" /\ pos <= Len(text)

\* char == opening_bracket: stack.append(char)
CheckOpen ==
    /\ Checking
    /\ text[pos] = LB
    /\ stack' = Append(stack, text[pos])
    /\ pos' = pos + 1
    /\ UNCHANGED <<text, vresult>>
    /\ UNCHANGED nonCheckVars

\* char == closing_bracket with an empty stack: return False
CheckCloseEmpty ==
    /\ Checking
    /\ text[pos] = RB
    /\ Len(stack) = 0
    /\ vresult' = "false"
    /\ UNCHANGED <<text, pos, stack>>
    /\ UNCHANGED nonCheckVars

\* char == closing_bracket: pop, and return False if the popped one is no opener
CheckClose ==
    /\ Checking
    /\ text[pos] = RB
    /\ Len(stack) # 0
    /\ stack' = SubSeq(stack, 1, Len(stack) - 1)
    /\ IF stack[Len(stack)] # LB
       THEN vresult' = "false" /\ pos' = pos
       ELSE vresult' = vresult /\ pos' = pos + 1
    /\ UNCHANGED text
    /\ UNCHANGED nonCheckVars

\* any other character is skipped
CheckOther ==
    /\ Checking
    /\ text[pos] \notin {LB, RB}
    /\ pos' = pos + 1
    /\ UNCHANGED <<text, stack, vresult>>
    /\ UNCHANGED nonCheckVars

\* the loop is over
CheckReturn ==
    /\ vresult = "running"
    /\ pos > Len(text)
    /\ vresult' = FinalResult(stack)
    /\ UNCHANGED <<text, pos, stack>>
    /\ UNCHANGED nonCheckVars

InitCheck ==
    /\ text \in SeqsUpTo(CheckAlphabet, MaxCheckLen)
    /\ pos = 1
    /\ stack = <<>>
    /\ vresult = "running"
    /\ TreeIdle
    /\ WalkIdle
    /\ SplitIdle
    /\ ParseIdle
    /\ RestIdle

NextCheck ==
    \/ CheckOpen
    \/ CheckCloseEmpty
    \/ CheckClose
    \/ CheckOther
    \/ CheckReturn

SpecCheck == InitCheck /\ [][NextCheck]_vars

----------------------------------------------------------------------------
(* text_utils.smart_split_list_items *)

SplitAlphabet == {URL, RBRACE, SEMI, FSEMI, SPACE, "a"}

\* the separators: char in ';' or its full-width form
Semis == {SEMI, FSEMI}

\* str.strip(): leading and trailing whitespace removed
RECURSIVE Strip(_)
Strip(s) ==
    IF s = <<>> THEN s
    ELSE IF Head(s) \in {SPACE, NL} THEN Strip(Tail(s))
    ELSE IF s[Len(s)] \in {SPACE, NL} THEN Strip(SubSeq(s, 1, Len(s) - 1))
    ELSE s

\* a separator ends the item whatever the depth
IsSeparatorAnyDepth(char, depth) == char \in Semis

\* char in ';；' and url_depth == 0
IsSeparator(char, depth) == char \in Semis /\ depth = 0

\* the last item forgotten
FlushLastDropped(its, current) == its

\* if current_item.strip(): items.append(current_item.strip())
FlushItem(its, current) ==
    IF Strip(current) # <<>> THEN Append(its, Strip(current)) ELSE its

\* the same, for the item left when the text ends
FlushLast(its, current) == FlushItem(its, current)

Splitting == ~sdone /\ si >= 1 /\ si <= Len(stext)

\* text[i:i+5] == '\\url{': one level deeper, the opener is copied
SplitUrlOpen ==
    /\ Splitting
    /\ stext[si] = URL
    /\ url_depth' = url_depth + 1
    /\ current_item' = Append(current_item, URL)
    /\ si' = si + 1
    /\ UNCHANGED <<stext, items, sdone, cuts>>
    /\ UNCHANGED nonSplitVars

\* char == '}' and url_depth > 0: one level up, the brace is copied
SplitUrlClose ==
    /\ Splitting
    /\ stext[si] # URL
    /\ stext[si] = RBRACE /\ url_depth > 0
    /\ url_depth' = url_depth - 1
    /\ current_item' = Append(current_item, stext[si])
    /\ si' = si + 1
    /\ UNCHANGED <<stext, items, sdone, cuts>>
    /\ UNCHANGED nonSplitVars

\* a separator outside every \url{...}: the item ends here
SplitSeparator ==
    /\ Splitting
    /\ stext[si] # URL
    /\ ~(stext[si] = RBRACE /\ url_depth > 0)
    /\ IsSeparator(stext[si], url_depth)
    /\ items' = FlushItem(items, current_item)
    /\ current_item' = <<>>
    /\ si' = si + 1
    /\ cuts' = cuts \cup {si}
    /\ UNCHANGED <<stext, url_depth, sdone>>
    /\ UNCHANGED nonSplitVars

\* any other character is copied
SplitCopy ==
    /\ Splitting
    /\ stext[si] # URL
    /\ ~(stext[si] = RBRACE /\ url_depth > 0)
    /\ ~IsSeparator(stext[si], url_depth)
    /\ current_item' = Append(current_item, stext[si])
    /\ si' = si + 1
    /\ UNCHANGED <<stext, url_depth, items, sdone, cuts>>
    /\ UNCHANGED nonSplitVars

\* the loop is over: the last item is added and items returned
SplitReturn ==
    /\ ~sdone
    /\ si > Len(stext)
    /\ items' = FlushLast(items, current_item)
    /\ sdone' = TRUE
    /\ UNCHANGED <<stext, si, current_item, url_depth, cuts>>
    /\ UNCHANGED nonSplitVars

InitSplit ==
    /\ stext \in SeqsUpTo(SplitAlphabet, MaxSplitLen)
    /\ si = 1
    /\ current_item = <<>>
    /\ url_depth = 0
    /\ items = <<>>
    /\ sdone = FALSE
    /\ cuts = {}
    /\ TreeIdle
    /\ WalkIdle
    /\ CheckIdle
    /\ ParseIdle
    /\ RestIdle

NextSplit ==
    \/ SplitUrlOpen
    \/ SplitUrlClose
    \/ SplitSeparator
    \/ SplitCopy
    \/ SplitReturn

SpecSplit == InitSplit /\ [][NextSplit]_vars

----------------------------------------------------------------------------
(* config/settings.py *)

BLUE == "blue"
BOLD_COLOR == <<BLUE>>
L_TITLE_COLOR == <<BLUE, "-deep">>
LL_TITLE_COLOR == <<BLUE>>

BoxNames == {"mingcijieshi", "caozuobuzhou", "shiyongjianyi", "bianzhedehua", "jiuyijianyi"}

BOX_DICT(name) ==
    CASE name \in {"mingcijieshi", "caozuobuzhou"} -> "green"
      [] name = "shiyongjianyi" -> "orange"
      [] OTHER -> "red"

UNORDERED_LIST_NAME == {<<"wuxu">>, <<"wuxuliebiao">>, <<"wuxulie">>}
ORDERED_LIST_NAME == {<<"youxu">>, <<"youxuliebiao">>, <<"youxulie">>}

----------------------------------------------------------------------------
(* What is appended to ldoc, and what is logged *)

Item(k, a, b, its) == [k |-> k, a |-> a, b |-> b, its |-> its]

\* NoEscape(string)
NoEscape(t) == Item("noescape", t, <<>>, <<>>)

\* Command("par")
ParCommand == Item("command", <<"par">>, <<>>, <<>>)

\* Figure: add_image(name), add_caption(caption), Command("label", name); the
\* figure is appended when the with-block is left
Figure(name, caption) == Item("figure", name, caption, <<>>)

\* Itemize / Enumerate with their items
Itemize(its) == Item("itemize", <<>>, <<>>, its)
Enumerate(its) == Item("enumerate", <<>>, <<>>, its)

NoItem == Item("none", <<>>, <<>>, <<>>)

\* a pending recursive call, a pending append
Call(t) == [op |-> "call", s |-> t, item |-> NoItem]
Emit(item) == [op |-> "emit", s |-> <<>>, item |-> item]

LogEntry(lvl, msg, extra) == [lvl |-> lvl, serial |-> pserial, msg |-> msg, extra |-> extra]

NoParseErr == [kind |-> "none", serial |-> <<>>, syntax |-> <<>>]

----------------------------------------------------------------------------
(* text_utils.validate_syntax_patterns, on a string of tokens *)

\* the tokens with a backslash in them
BackslashTokens == {URL, REF, TEXTBF, TEXTCOLOR, FOOTNOTE, PAR, PARLIT, "\\%"}

NoBraceBetween(t, p, q) == \A r \in (p + 1)..(q - 1) : t[r] # RBRACE

\* r'\url{\url{' in text
NestedUrl(t) == \E p \in 1..(Len(t) - 1) : t[p] = URL /\ t[p + 1] = URL

\* \\url\{[^}]*$ with re.MULTILINE: no closing brace up to the end of a line
IncompleteUrl(t) ==
    \E p \in 1..Len(t) :
        /\ t[p] = URL
        /\ \E e \in p..Len(t) :
              /\ e = Len(t) \/ t[e + 1] = NL
              /\ NoBraceBetween(t, p, e + 1)

\* \\ref\{[^}]*\\
RefWithBackslash(t) ==
    \E p \in 1..Len(t) : \E q \in (p + 1)..Len(t) :
        t[p] = REF /\ t[q] \in BackslashTokens /\ NoBraceBetween(t, p, q)

\* \\url\{[^}]*\\url\{
UrlInUrl(t) ==
    \E p \in 1..Len(t) : \E q \in (p + 1)..Len(t) :
        t[p] = URL /\ t[q] = URL /\ NoBraceBetween(t, p, q)

\* a reference token with the full-width colon starts at p and ends at e
RefTokenAt(t, p, e) ==
    /\ p + 3 <= e /\ e <= Len(t)
    /\ t[p] = LB /\ t[p + 1] = KwRef /\ t[p + 2] = FCOLON
    /\ t[e] = RB
    /\ \A r \in (p + 3)..(e - 1) : t[r] # RB

\* two reference tokens with nothing between them
ConsecutiveRefs(t) ==
    \E p \in 1..Len(t) : \E e \in p..Len(t) : \E f \in e..Len(t) :
        RefTokenAt(t, p, e) /\ RefTokenAt(t, e + 1, f)

\* more than three closer-opener pairs
MaxMarkerPairs == 3

TooManyMarkers(t) ==
    Cardinality({p \in 1..(Len(t) - 1) : t[p] = RB /\ t[p + 1] = LB}) > MaxMarkerPairs

\* errors, in the order they are appended
validate_syntax_patterns(t) ==
    (IF NestedUrl(t) THEN <<"nested-url">> ELSE <<>>)
    \o (IF IncompleteUrl(t) THEN <<"incomplete-url">> ELSE <<>>)
    \o (IF RefWithBackslash(t) THEN <<"bad-ref">> ELSE <<>>)
    \o (IF UrlInUrl(t) THEN <<"url-in-url">> ELSE <<>>)
    \o (IF TooManyMarkers(t) THEN <<"too-many-markers">> ELSE <<>>)

\* the logger calls of one syntax_interpreter call before it parses: the
\* warning of validate_syntax_patterns, then one warning per error
ValidationLog(t) ==
    (IF ConsecutiveRefs(t) THEN <<LogEntry("warning", "consecutive-refs", <<>>)>> ELSE <<>>)
    \o [i \in 1..Len(validate_syntax_patterns(t)) |->
            LogEntry("warning", validate_syntax_patterns(t)[i], <<>>)]

\* any("嵌套的URL命令" in error or "不完整的URL命令" in error ...)
SevereError(t) ==
    \E i \in 1..Len(validate_syntax_patterns(t)) :
        validate_syntax_patterns(t)[i] \in {"nested-url", "incomplete-url"}

----------------------------------------------------------------------------
(* text_utils.smart_split_list_items as a function (the loop of SpecSplit) *)

RECURSIVE SplitFrom(_, _, _, _, _)
SplitFrom(t, i, current, depth, its) ==
    IF i > Len(t) THEN FlushLast(its, current)
    ELSE IF t[i] = URL THEN SplitFrom(t, i + 1, Append(current, URL), depth + 1, its)
    ELSE IF t[i] = RBRACE /\ depth > 0
         THEN SplitFrom(t, i + 1, Append(current, t[i]), depth - 1, its)
    ELSE IF IsSeparator(t[i], depth)
         THEN SplitFrom(t, i + 1, <<>>, depth, FlushItem(its, current))
    ELSE SplitFrom(t, i + 1, Append(current, t[i]), depth, its)

smart_split_list_items(t) == SplitFrom(t, 1, <<>>, 0, <<>>)

----------------------------------------------------------------------------
(* text_utils.syntax_interpreter *)

HasLB(t) == \E i \in 1..Len(t) : t[i] = LB

FirstLB(t) == CHOOSE i \in 1..Len(t) : t[i] = LB /\ \A j \in 1..(i - 1) : t[j] # LB

\* re.search(r"(.*?)【(.*?)】(.*)", string, re.DOTALL): the first opening bracket
\* and the first closing bracket after it
BracketsMatch(t) == HasLB(t) /\ \E j \in (FirstLB(t) + 1)..Len(t) : t[j] = RB

FirstRB(t) ==
    CHOOSE j \in (FirstLB(t) + 1)..Len(t) :
        t[j] = RB /\ \A r \in (FirstLB(t) + 1)..(j - 1) : t[r] # RB

Pre(t) == SubSeq(t, 1, FirstLB(t) - 1)
Content(t) == SubSeq(t, FirstLB(t) + 1, FirstRB(t) - 1)

\* the third group taken from the opening bracket on
AfterWithSpan(t) == SubSeq(t, FirstLB(t), Len(t))

After(t) == SubSeq(t, FirstRB(t) + 1, Len(t))

Colons == {COLON, FCOLON}

\* a pattern with the half-width colon alone
ColonMatchHalfWidth(c) == \E i \in 1..Len(c) : c[i] = COLON

\* re.match(r"(.*?)[:：](.*)", content, re.DOTALL)
ColonMatch(c) == \E i \in 1..Len(c) : c[i] \in Colons

FirstColon(c) == CHOOSE i \in 1..Len(c) : c[i] \in Colons /\ \A j \in 1..(i - 1) : c[j] \notin Colons

SyntaxOf(c) == SubSeq(c, 1, FirstColon(c) - 1)
EmphasisOf(c) == SubSeq(c, FirstColon(c) + 1, Len(c))

\* image_is_existed(name)
image_is_existed(name) == name \in assets

\* after.replace(BOLD_COLOR, color)
ReplaceColor(t, color) == [i \in 1..Len(t) |-> IF t[i] = BLUE THEN color ELSE t[i]]

\* the strings appended by the branches
VSpace(h) == NoEscape(<<"\\vspace{", h, RBRACE>>)
TitleLine(title) ==
    NoEscape(<<TEXTBF, TEXTCOLOR>> \o L_TITLE_COLOR
             \o <<RBRACE, LBRACE, "\\large", SPACE, "\\arabic{", "little_title", RBRACE, "dunhao">>
             \o title \o <<RBRACE, RBRACE>>)
SubtitleLine(title) ==
    NoEscape(<<TEXTBF, TEXTCOLOR>> \o LL_TITLE_COLOR \o <<RBRACE, LBRACE, SPACE>>
             \o title \o <<RBRACE, RBRACE>>)
StepCounter == NoEscape(<<"\\refstepcounter{", "little_title", RBRACE>>)
BoldText(t) == NoEscape(<<TEXTBF>> \o t \o <<RBRACE>>)
FootnoteText(t) == NoEscape(<<FOOTNOTE>> \o t \o <<RBRACE>>)
ColorBold(t) == <<TEXTBF, TEXTCOLOR>> \o BOLD_COLOR \o <<RBRACE, LBRACE>> \o t \o <<RBRACE, RBRACE>>
BoxBegin(color, name) ==
    NoEscape(<<"\\begin{", "module", RBRACE, "[", "colback=", color, "back", ",colframe=", color,
               ",colbacktitle=", color, "]", LBRACE>> \o name \o <<RBRACE>>)
BoxLabel(t) == NoEscape(<<"\\label{">> \o t \o <<RBRACE>>)
BoxTitle(t) == NoEscape(<<TEXTBF, "\\large", SPACE>> \o t \o <<RBRACE>>)
BoxLower == NoEscape(<<"\\tcblower">>)
BoxEnd == NoEscape(<<"\\end{", "module", RBRACE>>)

\* the suggestions of the unknown-syntax branches
TitleLike == {KwTitle, KwSubtitle, "biaoti"}
Contains(t, toks) == \E i \in 1..Len(t) : t[i] \in toks
Suggestions(t) ==
    IF Contains(t, TitleLike) THEN <<"use-title">>
    ELSE IF Contains(t, {"tanlidai", "kuanguanjie"}) THEN <<"use-bold">>
    ELSE IF Contains(t, {"xiaobiaotui"}) THEN <<"typo-title">>
    ELSE <<"check-syntax", "see-supported-syntax">>

\* logger.report_syntax_error(serial, syntax, suggestions)
report_syntax_error(syn, suggestions) ==
    <<LogEntry("error", "unsupported-syntax", syn)>>
    \o (IF suggestions # <<>>
        THEN <<LogEntry("info", "possible-solutions", <<>>)>>
             \o [i \in 1..Len(suggestions) |-> LogEntry("info", suggestions[i], <<>>)]
        ELSE <<>>)

\* the message of the TypeError: f"{serial}中的语法{syntax}未定义"
UndefinedSyntaxWrongSerial(syn) == [kind |-> "TypeError", serial |-> <<>>, syntax |-> syn]

UndefinedSyntax(syn) == [kind |-> "TypeError", serial |-> pserial, syntax |-> syn]

Running == pstatus = "running" /\ pstack # <<>>

\* the string of the call that runs next
S == pstack[1].s

Calling == Running /\ pstack[1].op = "call"

\* the call parses: no severe error, and the first span is located
Dispatching == Calling /\ ~SevereError(S) /\ BracketsMatch(S)

WithColon == Dispatching /\ ColonMatch(Content(S))
NoColon == Dispatching /\ ~ColonMatch(Content(S))

\* what a call leaves to do, in place of itself
Continue(todo) ==
    /\ pstack' = todo \o Tail(pstack)
    /\ plog' = plog \o ValidationLog(S)
    /\ UNCHANGED <<para, pmode, pstring, assets, pserial, sink, pstatus, perr>>
    /\ UNCHANGED nonParseVars

\* a call that raises and takes back what was appended
RaiseFromRetracting(err, logged) ==
    /\ pstatus' = err.kind
    /\ perr' = err
    /\ plog' = plog \o ValidationLog(S) \o logged
    /\ sink' = <<>>
    /\ UNCHANGED <<para, pmode, pstring, assets, pserial, pstack>>
    /\ UNCHANGED nonParseVars

\* a call that ends by raising
RaiseFrom(err, logged) ==
    /\ pstatus' = err.kind
    /\ perr' = err
    /\ plog' = plog \o ValidationLog(S) \o logged
    /\ UNCHANGED <<para, pmode, pstring, assets, pserial, pstack, sink>>
    /\ UNCHANGED nonParseVars

\* ldoc.append(...)
ParseAppend ==
    /\ Running
    /\ pstack[1].op = "emit"
    /\ sink' = Append(sink, pstack[1].item)
    /\ pstack' = Tail(pstack)
    /\ UNCHANGED <<para, pmode, pstring, assets, pserial, plog, pstatus, perr>>
    /\ UNCHANGED nonParseVars

\* a nested or incomplete \url{ command: raise ValueError
ParseSevere ==
    /\ Calling
    /\ SevereError(S)
    /\ RaiseFrom([kind |-> "ValueError", serial |-> pserial, syntax |-> <<>>], <<>>)

\* what the branch without a bracket leaves to do
PlainTodo(t) == <<Emit(NoEscape(t)), Emit(ParCommand)>>

\* no opening bracket: the string and a \par are appended
ParsePlain ==
    /\ Calling
    /\ ~SevereError(S)
    /\ ~HasLB(S)
    /\ Continue(PlainTodo(S))

\* an opening bracket with no closing bracket after it: brackets_match is None
ParseNoMatch ==
    /\ Calling
    /\ ~SevereError(S)
    /\ HasLB(S)
    /\ ~BracketsMatch(S)
    /\ RaiseFrom([kind |-> "AttributeError", serial |-> <<>>, syntax |-> <<>>], <<>>)

\* syntax == "图片", and the image is missing: the assert fails before pre is parsed
ParseImageMissing ==
    /\ WithColon
    /\ SyntaxOf(Content(S)) = <<KwImage>>
    /\ ~image_is_existed(EmphasisOf(Content(S)))
    /\ RaiseFrom([kind |-> "AssertionError", serial |-> pserial,
                  syntax |-> EmphasisOf(Content(S))], <<>>)

\* the caption of a figure: the text after the span, or the name
Caption(name, after) == IF after = <<>> THEN name ELSE after

\* the image branch going on into the text after the span
ImageTodoParsesAfter(t) ==
    <<Call(Pre(t)),
      Emit(Figure(EmphasisOf(Content(t)), Caption(EmphasisOf(Content(t)), After(t)))),
      Call(After(t))>>

\* what the image branch leaves to do
ImageTodo(t) ==
    <<Call(Pre(t)),
      Emit(Figure(EmphasisOf(Content(t)), Caption(EmphasisOf(Content(t)), After(t))))>>

\* syntax == "图片": pre is parsed, the figure appended, and the call returns
ParseImage ==
    /\ WithColon
    /\ SyntaxOf(Content(S)) = <<KwImage>>
    /\ image_is_existed(EmphasisOf(Content(S)))
    /\ Continue(ImageTodo(S))

\* what the title branch leaves to do
TitleTodo(t) ==
    <<Call(Pre(t)), Emit(VSpace("1ex")), Emit(TitleLine(EmphasisOf(Content(t)))),
      Emit(ParCommand), Emit(StepCounter), Emit(VSpace("1ex")), Call(After(t))>>

\* syntax == "小标题"
ParseTitle ==
    /\ WithColon
    /\ SyntaxOf(Content(S)) = <<KwTitle>>
    /\ Continue(TitleTodo(S))

\* what the subtitle branch leaves to do
SubtitleTodo(t) ==
    <<Call(Pre(t)), Emit(VSpace("0.4ex")), Emit(SubtitleLine(EmphasisOf(Content(t)))),
      Emit(ParCommand), Emit(VSpace("0.4ex")), Call(After(t))>>

\* syntax == "小小标题"
ParseSubtitle ==
    /\ WithColon
    /\ SyntaxOf(Content(S)) = <<KwSubtitle>>
    /\ Continue(SubtitleTodo(S))

\* what the bold branch leaves to do
BoldTodo(t) == <<Call(Pre(t)), Emit(BoldText(EmphasisOf(Content(t)))), Call(After(t))>>

\* syntax == "加粗"
ParseBold ==
    /\ WithColon
    /\ SyntaxOf(Content(S)) = <<KwBold>>
    /\ Continue(BoldTodo(S))

\* what the footnote branch leaves to do
FootnoteTodo(t) == <<Call(Pre(t)), Emit(FootnoteText(EmphasisOf(Content(t)))), Call(After(t))>>

\* syntax == "脚注"
ParseFootnote ==
    /\ WithColon
    /\ SyntaxOf(Content(S)) = <<KwFootnote>>
    /\ Continue(FootnoteTodo(S))

IsBoxName(t) == Len(t) = 1 /\ t[1] \in BoxNames

\* the box branch without its last append
BoxTodoUnclosed(t) ==
    LET name == SyntaxOf(Content(t))
        color == BOX_DICT(name[1])
    IN  <<Call(Pre(t)), Emit(BoxBegin(color, name)),
          Emit(BoxLabel(EmphasisOf(Content(t)))),
          Emit(BoxTitle(EmphasisOf(Content(t)))), Emit(BoxLower),
          Call(ReplaceColor(After(t), color))>>

\* what the box branch leaves to do
BoxTodo(t) ==
    LET name == SyntaxOf(Content(t))
        color == BOX_DICT(name[1])
    IN  <<Call(Pre(t)), Emit(BoxBegin(color, name)),
          Emit(BoxLabel(EmphasisOf(Content(t)))),
          Emit(BoxTitle(EmphasisOf(Content(t)))), Emit(BoxLower),
          Call(ReplaceColor(After(t), color)), Emit(BoxEnd)>>

\* syntax in BOX_DICT.keys()
ParseBox ==
    /\ WithColon
    /\ IsBoxName(SyntaxOf(Content(S)))
    /\ Continue(BoxTodo(S))

ColonKeywords == {<<KwImage>>, <<KwTitle>>, <<KwSubtitle>>, <<KwBold>>, <<KwFootnote>>}

\* a colon, and no branch for what is before it: report, raise TypeError
ParseUnknown ==
    /\ WithColon
    /\ SyntaxOf(Content(S)) \notin ColonKeywords
    /\ ~IsBoxName(SyntaxOf(Content(S)))
    /\ RaiseFrom(UndefinedSyntax(SyntaxOf(Content(S))),
                 report_syntax_error(SyntaxOf(Content(S)), Suggestions(SyntaxOf(Content(S)))))

\* what the list branches leave to do
UnorderedTodo(t) ==
    <<Call(Pre(t)), Emit(Itemize(smart_split_list_items(After(t)))), Emit(ParCommand)>>
OrderedTodo(t) ==
    <<Call(Pre(t)), Emit(Enumerate(smart_split_list_items(After(t)))), Emit(ParCommand)>>

\* content in UNORDERED_LIST_NAME
ParseUnordered ==
    /\ NoColon
    /\ Content(S) \in UNORDERED_LIST_NAME
    /\ Continue(UnorderedTodo(S))

\* content in ORDERED_LIST_NAME
ParseOrdered ==
    /\ NoColon
    /\ Content(S) \in ORDERED_LIST_NAME
    /\ Continue(OrderedTodo(S))

\* what the branches of the bare headings leave to do
BareTitleTodo(t) ==
    <<Call(Pre(t)), Emit(VSpace("1ex")), Emit(TitleLine(After(t))),
      Emit(ParCommand), Emit(StepCounter), Emit(VSpace("1ex")), Emit(ParCommand)>>
BareSubtitleTodo(t) ==
    <<Call(Pre(t)), Emit(VSpace("0.4ex")), Emit(SubtitleLine(After(t))),
      Emit(ParCommand), Emit(VSpace("0.4ex")), Emit(ParCommand)>>

\* content == "小标题": the text after the span is the title
ParseBareTitle ==
    /\ NoColon
    /\ Content(S) = <<KwTitle>>
    /\ Continue(BareTitleTodo(S))

\* content == "小小标题"
ParseBareSubtitle ==
    /\ NoColon
    /\ Content(S) = <<KwSubtitle>>
    /\ Continue(BareSubtitleTodo(S))

\* what the branch of the bare box leaves to do
BareBoxTodo(t) ==
    LET color == BOX_DICT(Content(t)[1])
    IN  <<Call(Pre(t)), Emit(BoxBegin(color, Content(t))),
          Call(ReplaceColor(After(t), color)), Emit(BoxEnd)>>

\* content in BOX_DICT.keys()
ParseBareBox ==
    /\ NoColon
    /\ IsBoxName(Content(S))
    /\ Continue(BareBoxTodo(S))

\* the string appended for a bare span
DefaultBold(t) == NoEscape(ColorBold(t))

\* what the default-bold branch leaves to do, with the span ahead of pre
DefaultBoldTodoSpanFirst(t) == <<Emit(DefaultBold(Content(t))), Call(Pre(t)), Call(After(t))>>

\* what the default-bold branch leaves to do
DefaultBoldTodo(t) == <<Call(Pre(t)), Emit(DefaultBold(Content(t))), Call(After(t))>>

\* the default-bold branch with the unknown-syntax error for an empty content
ParseDefaultBoldRaisesEmpty ==
    /\ NoColon
    /\ Content(S) \notin UNORDERED_LIST_NAME \cup ORDERED_LIST_NAME
    /\ Content(S) \notin {<<KwTitle>>, <<KwSubtitle>>}
    /\ ~IsBoxName(Content(S))
    /\ IF Content(S) = <<>>
       THEN RaiseFrom(UndefinedSyntax(Content(S)),
                      report_syntax_error(Content(S), Suggestions(Content(S))))
       ELSE Continue(DefaultBoldTodo(S))

\* no colon and no keyword: the span is bold by default.  (The branch of the
\* code for a content with a colon that reached this place cannot be taken:
\* colon_match matches every content that has a colon.)
ParseDefaultBold ==
    /\ NoColon
    /\ Content(S) \notin UNORDERED_LIST_NAME \cup ORDERED_LIST_NAME
    /\ Content(S) \notin {<<KwTitle>>, <<KwSubtitle>>}
    /\ ~IsBoxName(Content(S))
    /\ Continue(DefaultBoldTodo(S))

\* the outermost call has returned
ParseReturn ==
    /\ pstatus = "running"
    /\ pstack = <<>>
    /\ pstatus' = "ok"
    /\ UNCHANGED <<para, pmode, pstring, assets, pserial, pstack, sink, plog, perr>>
    /\ UNCHANGED nonParseVars

----------------------------------------------------------------------------
(* text_utils.syntax_interpreter as a function: the same branches, taken one
   call after the other until the outermost call returns or one raises *)

\* the exception the call on t raises itself, if any
RaisedBy(t) ==
    IF SevereError(t) THEN "ValueError"
    ELSE IF ~HasLB(t) THEN "none"
    ELSE IF ~BracketsMatch(t) THEN "AttributeError"
    ELSE IF ~ColonMatch(Content(t)) THEN "none"
    ELSE IF SyntaxOf(Content(t)) = <<KwImage>>
         THEN IF image_is_existed(EmphasisOf(Content(t))) THEN "none" ELSE "AssertionError"
    ELSE IF SyntaxOf(Content(t)) \in ColonKeywords \/ IsBoxName(SyntaxOf(Content(t)))
         THEN "none"
    ELSE "TypeError"

\* what the call on t leaves to do when it does not raise
BranchTodo(t) ==
    IF ~HasLB(t) THEN PlainTodo(t)
    ELSE IF ColonMatch(Content(t))
    THEN CASE SyntaxOf(Content(t)) = <<KwImage>> -> ImageTodo(t)
           [] SyntaxOf(Content(t)) = <<KwTitle>> -> TitleTodo(t)
           [] SyntaxOf(Content(t)) = <<KwSubtitle>> -> SubtitleTodo(t)
           [] SyntaxOf(Content(t)) = <<KwBold>> -> BoldTodo(t)
           [] SyntaxOf(Content(t)) = <<KwFootnote>> -> FootnoteTodo(t)
           [] OTHER -> BoxTodo(t)
    ELSE CASE Content(t) \in UNORDERED_LIST_NAME -> UnorderedTodo(t)
           [] Content(t) \in ORDERED_LIST_NAME -> OrderedTodo(t)
           [] Content(t) = <<KwTitle>> -> BareTitleTodo(t)
           [] Content(t) = <<KwSubtitle>> -> BareSubtitleTodo(t)
           [] IsBoxName(Content(t)) -> BareBoxTodo(t)
           [] OTHER -> DefaultBoldTodo(t)

RECURSIVE RunStack(_, _)
RunStack(stk, ldoc) ==
    IF stk = <<>> THEN [ldoc |-> ldoc, status |-> "ok"]
    ELSE IF Head(stk).op = "emit" THEN RunStack(Tail(stk), Append(ldoc, Head(stk).item))
    ELSE IF RaisedBy(Head(stk).s) # "none"
         THEN [ldoc |-> ldoc, status |-> RaisedBy(Head(stk).s)]
    ELSE RunStack(BranchTodo(Head(stk).s) \o Tail(stk), ldoc)

\* syntax_interpreter(ldoc, string, serial): ldoc afterwards, and how it ended
syntax_interpreter(ldoc, string) == RunStack(<<Call(string)>>, ldoc)

----------------------------------------------------------------------------
(* text_utils.special_character_replacement, on a string of tokens *)

RECURSIVE Flatten(_)
Flatten(ss) == IF ss = <<>> THEN <<>> ELSE Head(ss) \o Flatten(Tail(ss))

\* str.replace(old, new): every occurrence, left to right
RECURSIVE ReplaceAll(_, _, _)
ReplaceAll(t, old, new) ==
    IF Len(t) < Len(old) THEN t
    ELSE IF SubSeq(t, 1, Len(old)) = old
         THEN new \o ReplaceAll(SubSeq(t, Len(old) + 1, Len(t)), old, new)
    ELSE <<Head(t)>> \o ReplaceAll(Tail(t), old, new)

\* (?<!http:)(?<!https:) before position i
AfterScheme(t, i) == i > 2 /\ t[i - 1] = COLON /\ t[i - 2] \in {HTTP, HTTPS}

\* the line-break marker, then every // that does not follow a scheme
LineBreaks(t) ==
    LET u == ReplaceAll(t, <<LB, KwBreak, RB>>, <<PARLIT>>)
    IN  Flatten([i \in 1..Len(u) |->
                   IF u[i] = SLASHES /\ ~AfterScheme(u, i) THEN <<PAR, NL>> ELSE <<u[i]>>])

\* math_replacements, of which the model's texts hold the percent sign
Symbols(t) == [i \in 1..Len(t) |-> IF t[i] = PERCENT THEN "\\%" ELSE t[i]]

\* bold_replacement / footnote_replacement: the stripped content in its
\* command, or nothing when it is empty
ShortForm(kw, c) ==
    IF Strip(c) = <<>> THEN <<>>
    ELSE IF kw = KwBold THEN ColorBold(Strip(c))
    ELSE <<FOOTNOTE>> \o Strip(c) \o <<RBRACE>>

\* kw:(.*?) closes at position e: the first closing bracket, on the same line
ClosesAt(t, e) ==
    /\ 4 <= e /\ e <= Len(t)
    /\ t[e] = RB
    /\ \A r \in 4..(e - 1) : t[r] \notin {RB, NL}

SpanStarts(t, kw, colon) ==
    /\ Len(t) >= 4
    /\ SubSeq(t, 1, 3) = <<LB, kw, colon>>
    /\ \E e \in 4..Len(t) : ClosesAt(t, e)

SpanEnd(t) == CHOOSE e \in 4..Len(t) : ClosesAt(t, e)

\* re.sub of one short-form pattern
RECURSIVE SubShortForm(_, _, _)
SubShortForm(t, kw, colon) ==
    IF t = <<>> THEN t
    ELSE IF SpanStarts(t, kw, colon)
         THEN ShortForm(kw, SubSeq(t, 4, SpanEnd(t) - 1))
              \o SubShortForm(SubSeq(t, SpanEnd(t) + 1, Len(t)), kw, colon)
    ELSE <<Head(t)>> \o SubShortForm(Tail(t), kw, colon)

\* the half-width pattern, then the full-width one
ShortForms(t, kw) == SubShortForm(SubShortForm(t, kw, COLON), kw, FCOLON)

\* re.findall of a reference pattern: the referenced objects, left to right
RECURSIVE FindRefs(_, _)
FindRefs(t, colon) ==
    IF t = <<>> THEN <<>>
    ELSE IF SpanStarts(t, KwRef, colon)
         THEN <<SubSeq(t, 4, SpanEnd(t) - 1)>>
              \o FindRefs(SubSeq(t, SpanEnd(t) + 1, Len(t)), colon)
    ELSE FindRefs(Tail(t), colon)

RefToken(obj, colon) == <<LB, KwRef, colon>> \o obj \o <<RB>>

\* re.search of the token with (?<!图) before it
RefWithoutPrefix(t, obj, colon) ==
    \E p \in 1..Len(t) :
        /\ p + Len(RefToken(obj, colon)) - 1 <= Len(t)
        /\ SubSeq(t, p, p + Len(RefToken(obj, colon)) - 1) = RefToken(obj, colon)
        /\ (p = 1 \/ t[p - 1] # KwFigure)

\* the replacement of every occurrence of one reference token
RewriteRef(t, obj, colon) ==
    IF image_is_existed(obj) /\ RefWithoutPrefix(t, obj, colon)
    THEN ReplaceAll(t, RefToken(obj, colon), <<KwFigure, REF>> \o obj \o <<RBRACE>>)
    ELSE ReplaceAll(t, RefToken(obj, colon), <<REF>> \o obj \o <<RBRACE>>)

RECURSIVE RewriteRefs(_, _, _)
RewriteRefs(t, objs, colon) ==
    IF objs = <<>> THEN t
    ELSE RewriteRefs(RewriteRef(t, Head(objs), colon), Tail(objs), colon)

\* the dash is braced when the text has a reference word, then the two patterns
References(t) ==
    LET u == IF Contains(t, {KwRef}) /\ Contains(t, {DASH})
             THEN ReplaceAll(t, <<DASH>>, <<LBRACE, DASH, RBRACE>>) ELSE t
        v == RewriteRefs(u, FindRefs(u, COLON), COLON)
    IN  RewriteRefs(v, FindRefs(v, FCOLON), FCOLON)

Whitespace == {SPACE, NL}

\* the tokens whose last character is not a word character
NonWordEnd == {SPACE, NL, LB, RB, COLON, FCOLON, SEMI, FSEMI, SLASHES, URL, RBRACE, LBRACE,
               TEXTBF, TEXTCOLOR, FOOTNOTE, REF, WWW, PERCENT, "\\%", DASH}

\* \b(?:https?://|www\.)\S : a URL starts at position i
UrlStarts(t, i) ==
    /\ i = 1 \/ t[i - 1] \in NonWordEnd
    /\ \/ /\ i + 3 <= Len(t)
          /\ t[i] \in {HTTP, HTTPS} /\ t[i + 1] = COLON /\ t[i + 2] = SLASHES
          /\ t[i + 3] \notin Whitespace
       \/ /\ i + 1 <= Len(t)
          /\ t[i] = WWW
          /\ t[i + 1] \notin Whitespace

\* \S+ : the match runs to the next whitespace
UrlEnd(t, i) ==
    CHOOSE e \in i..Len(t) :
        /\ \A r \in i..e : t[r] \notin Whitespace
        /\ e = Len(t) \/ t[e + 1] \in Whitespace

\* url_replacement: left alone when it holds \url{, wrapped otherwise
WrapUrl(url) == IF Contains(url, {URL}) THEN url ELSE <<URL>> \o url \o <<RBRACE>>

RECURSIVE SubUrls(_, _)
SubUrls(t, i) ==
    IF i > Len(t) THEN <<>>
    ELSE IF UrlStarts(t, i)
         THEN WrapUrl(SubSeq(t, i, UrlEnd(t, i))) \o SubUrls(t, UrlEnd(t, i) + 1)
    ELSE <<t[i]>> \o SubUrls(t, i + 1)

Urls(t) == SubUrls(t, 1)

\* TERM_DICT
Terms(t) == [i \in 1..Len(t) |-> IF t[i] = TermOld THEN TermNew ELSE t[i]]

special_character_replacement(t) ==
    Terms(Urls(References(ShortForms(ShortForms(Symbols(LineBreaks(t)), KwBold), KwFootnote))))

----------------------------------------------------------------------------
(* A paragraph of a unit is compiled: latex_generator.add_document_content
   runs special_character_replacement and then syntax_interpreter on it;
   syntax_interpreter is also run on a text as it is. *)

\* a span
Span(c) == <<LB>> \o c \o <<RB>>

\* the pieces the paragraphs are made of
PlainPieces ==
    { <<"a">>, <<SPACE>>, <<SEMI>>, <<LB>>, <<RB>>, <<URL>>, <<SLASHES>>, <<PERCENT>>,
      <<KwFigure>>, <<TermOld>>,
      <<HTTP, COLON, SLASHES, "a">>, <<URL, "a", RBRACE>> }

BarePieces ==
    { Span(<<"a">>), Span(<<>>), Span(<<"a", SLASHES, "a">>),
      Span(<<KwTitle>>), Span(<<KwSubtitle>>), Span(<<"wuxu">>), Span(<<"youxu">>),
      Span(<<"shiyongjianyi">>), Span(<<KwBreak>>) }

ColonPieces ==
    { Span(<<KwBold, COLON, "a">>), Span(<<KwBold, FCOLON, SPACE, "a">>),
      Span(<<KwBold, COLON, "a", SLASHES, "a">>),
      Span(<<KwFootnote, COLON, "a">>), Span(<<KwFootnote, FCOLON, "a", SLASHES, "a">>),
      Span(<<KwImage, COLON, "p">>), Span(<<KwImage, FCOLON, "q">>),
      Span(<<KwTitle, FCOLON, "a">>), Span(<<KwSubtitle, COLON, "a">>),
      Span(<<"mingcijieshi", COLON, "a">>),
      Span(<<KwRef, COLON, "p">>),
      Span(<<"x", COLON, "a">>), Span(<<"biaoti", FCOLON, "a", COLON, "a">>) }

Pieces == PlainPieces \cup BarePieces \cup ColonPieces

MaxPieces == 2

RECURSIVE Paragraphs(_)
Paragraphs(n) ==
    IF n = 0 THEN {<<>>}
    ELSE Paragraphs(n - 1) \cup {p \o q : p \in Paragraphs(n - 1), q \in Pieces}

\* the names of the image files in the asset directory
Assets == {<<"p">>}

\* the serial of the unit the paragraph belongs to
Serials == {<<1, 1, 0>>}

InitCompile ==
    /\ para \in Paragraphs(MaxPieces)
    /\ pmode = "raw"
    /\ pstring = <<>>
    /\ assets = Assets
    /\ pserial \in Serials
    /\ pstack = <<>>
    /\ sink = <<>>
    /\ plog = <<>>
    /\ pstatus = "idle"
    /\ perr = NoParseErr
    /\ TreeIdle /\ CheckIdle /\ SplitIdle /\ WalkIdle /\ RestIdle

\* add_document_content: the paragraph goes through the pre-pass
StartCompile ==
    /\ pmode = "raw"
    /\ pmode' = "compile"
    /\ pstring' = special_character_replacement(para)
    /\ pstack' = <<Call(special_character_replacement(para))>>
    /\ pstatus' = "running"
    /\ UNCHANGED <<para, assets, pserial, sink, plog, perr>>
    /\ UNCHANGED nonParseVars

\* syntax_interpreter(ldoc, string, serial) on the text as it is
StartParse ==
    /\ pmode = "raw"
    /\ pmode' = "parse"
    /\ pstring' = para
    /\ pstack' = <<Call(para)>>
    /\ pstatus' = "running"
    /\ UNCHANGED <<para, assets, pserial, sink, plog, perr>>
    /\ UNCHANGED nonParseVars

NextCompile ==
    \/ StartCompile
    \/ StartParse
    \/ ParseAppend
    \/ ParseSevere
    \/ ParsePlain
    \/ ParseNoMatch
    \/ ParseImageMissing
    \/ ParseImage
    \/ ParseTitle
    \/ ParseSubtitle
    \/ ParseBold
    \/ ParseFootnote
    \/ ParseBox
    \/ ParseUnknown
    \/ ParseUnordered
    \/ ParseOrdered
    \/ ParseBareTitle
    \/ ParseBareSubtitle
    \/ ParseBareBox
    \/ ParseDefaultBold
    \/ ParseReturn

SpecCompile == InitCompile /\ [][NextCompile]_vars

\* at most this many pieces behind the first one in a paragraph given to
\* the parser under fairness
MaxFairTail == 2

\* the first piece: one for each branch of the parser, and the brackets by
\* themselves
FairPieces ==
    { <<"a">>, <<LB>>, <<RB>>, <<URL>>,
      Span(<<"a">>), Span(<<KwTitle>>), Span(<<KwSubtitle>>), Span(<<"wuxu">>),
      Span(<<"youxu">>), Span(<<"shiyongjianyi">>),
      Span(<<KwBold, COLON, "a">>), Span(<<KwFootnote, COLON, "a">>),
      Span(<<KwImage, COLON, "p">>), Span(<<KwImage, FCOLON, "q">>),
      Span(<<KwTitle, FCOLON, "a">>), Span(<<KwSubtitle, COLON, "a">>),
      Span(<<"mingcijieshi", COLON, "a">>), Span(<<"x", COLON, "a">>) }

\* the pieces behind it: what the recursion goes on with
FairTailPieces == { <<"a">>, <<LB>>, Span(<<"a">>), Span(<<"shiyongjianyi">>) }

RECURSIVE FairTails(_)
FairTails(n) ==
    IF n = 0 THEN {<<>>}
    ELSE FairTails(n - 1) \cup {p \o q : p \in FairTails(n - 1), q \in FairTailPieces}

FairParagraphs == {p \o q : p \in FairPieces, q \in FairTails(MaxFairTail)}

InitCompileFair ==
    /\ para \in FairParagraphs
    /\ pmode = "raw"
    /\ pstring = <<>>
    /\ assets = Assets
    /\ pserial \in Serials
    /\ pstack = <<>>
    /\ sink = <<>>
    /\ plog = <<>>
    /\ pstatus = "idle"
    /\ perr = NoParseErr
    /\ TreeIdle /\ CheckIdle /\ SplitIdle /\ WalkIdle /\ RestIdle

\* a step of syntax_interpreter, once it was called
ParserStep ==
    \/ ParseAppend
    \/ ParseSevere
    \/ ParsePlain
    \/ ParseNoMatch
    \/ ParseImageMissing
    \/ ParseImage
    \/ ParseTitle
    \/ ParseSubtitle
    \/ ParseBold
    \/ ParseFootnote
    \/ ParseBox
    \/ ParseUnknown
    \/ ParseUnordered
    \/ ParseOrdered
    \/ ParseBareTitle
    \/ ParseBareSubtitle
    \/ ParseBareBox
    \/ ParseDefaultBold
    \/ ParseReturn

\* the parser as a sequential program: a call that can take a step takes it
SpecCompileFair == InitCompileFair /\ [][NextCompile]_vars /\ WF_vars(ParserStep)

----------------------------------------------------------------------------
(* text_utils.special_character_replacement, one replacement after the
   other: pmode is the replacement done last, pstring the text so far *)

\* at most this many pieces in a text given to the pre-pass
MaxPrePieces == 3

PrePieces ==
    { <<"a">>, <<SPACE>>, <<KwFigure>>, <<DASH>>, <<URL>>, <<RBRACE>>, <<SLASHES>>,
      <<TermOld>>, <<PERCENT>>, <<KwRef>>,
      Span(<<KwRef, COLON, "p">>), Span(<<KwRef, FCOLON, "p">>), Span(<<KwRef, COLON, "q">>),
      <<HTTP, COLON, SLASHES, "a">>, <<WWW, "a">>,
      Span(<<KwBold, COLON, "a">>), Span(<<KwFootnote, COLON, "a">>) }

RECURSIVE PreTexts(_)
PreTexts(n) ==
    IF n = 0 THEN {<<>>}
    ELSE PreTexts(n - 1) \cup {p \o q : p \in PreTexts(n - 1), q \in PrePieces}

InitPrepass ==
    /\ para \in PreTexts(MaxPrePieces)
    /\ pmode = "text"
    /\ pstring = para
    /\ assets = Assets
    /\ pserial = <<>>
    /\ pstack = <<>>
    /\ sink = <<>>
    /\ plog = <<>>
    /\ pstatus = "idle"
    /\ perr = NoParseErr
    /\ TreeIdle /\ CheckIdle /\ SplitIdle /\ WalkIdle /\ RestIdle

\* what a replacement leaves as it is
PreUnchanged ==
    /\ UNCHANGED <<para, assets, pserial, pstack, sink, plog, pstatus, perr>>
    /\ UNCHANGED nonParseVars

\* the line-break marker and //
PreLineBreaks ==
    /\ pmode = "text"
    /\ pmode' = "linebreaks"
    /\ pstring' = LineBreaks(pstring)
    /\ PreUnchanged

\* math_replacements
PreSymbols ==
    /\ pmode = "linebreaks"
    /\ pmode' = "symbols"
    /\ pstring' = Symbols(pstring)
    /\ PreUnchanged

\* the short form of bold, both colons
PreBold ==
    /\ pmode = "symbols"
    /\ pmode' = "bold"
    /\ pstring' = ShortForms(pstring, KwBold)
    /\ PreUnchanged

\* the short form of the footnote, both colons
PreFootnote ==
    /\ pmode = "bold"
    /\ pmode' = "footnote"
    /\ pstring' = ShortForms(pstring, KwFootnote)
    /\ PreUnchanged

\* the dash and the reference tokens
PreReferences ==
    /\ pmode = "footnote"
    /\ pmode' = "references"
    /\ pstring' = References(pstring)
    /\ PreUnchanged

\* re.sub of the URL pattern with url_replacement
PreUrls ==
    /\ pmode = "references"
    /\ pmode' = "urls"
    /\ pstring' = Urls(pstring)
    /\ PreUnchanged

\* TERM_DICT
PreTerms ==
    /\ pmode = "urls"
    /\ pmode' = "terms"
    /\ pstring' = Terms(pstring)
    /\ PreUnchanged

NextPrepass ==
    \/ PreLineBreaks
    \/ PreSymbols
    \/ PreBold
    \/ PreFootnote
    \/ PreReferences
    \/ PreUrls
    \/ PreTerms

SpecPrepass == InitPrepass /\ [][NextPrepass]_vars

----------------------------------------------------------------------------
(* latex_generator.LaTeXGenerator.add_document_content: the units of
   document_dict in order, a heading for each, then its paragraphs through
   the pre-pass and the parser *)

\* at most this many units in document_dict
MaxGenUnits == 2

\* Command(name, argument)
Command(name, arg) == Item("command", <<name>>, arg, <<>>)

\* NoEscape(r"\setcounter{little_title}{1}")
SetCounter == NoEscape(<<"\\setcounter{", "little_title", RBRACE, LBRACE, "1", RBRACE>>)

\* the branch add_document_content takes for a unit with chapter != 0
HeadingOf(u) ==
    IF u.section = 0 THEN "chapter" ELSE IF u.subsection = 0 THEN "section" ELSE "subsection"

\* the heading of a unit without the counter
UnitHeaderNoReset(kind, name) == <<Command(kind, name), Command("label", name)>>

\* the three appends that open a unit
UnitHeader(kind, name) == <<Command(kind, name), Command("label", name), SetCounter>>

\* the paragraphs the texts of the units are made of
MajorHeading == Span(<<KwTitle, COLON, "a">>)
BareMajorHeading == Span(<<KwTitle>>) \o <<"a">>
MinorHeading == Span(<<KwSubtitle, COLON, "a">>)
BoxOpening == Span(<<"mingcijieshi", COLON, "a">>)
UnknownSpan == Span(<<"x", COLON, "a">>)

\* content["text"] of a unit
UnitTexts ==
    { <<>>,
      << MajorHeading \o MinorHeading \o BareMajorHeading >>,
      << <<"a">> \o MinorHeading, Span(<<"a">>) \o MajorHeading >>,
      << BoxOpening \o MajorHeading, BareMajorHeading >>,
      << MajorHeading, UnknownSpan, MajorHeading >> }

\* serial fields of a unit: chapter, section, subsection
UnitKeys == { <<1, 0, 0>>, <<1, 1, 0>>, <<1, 1, 1>>, <<0, 0, 0>> }

GenUnits ==
    { [chapter |-> k[1], section |-> k[2], subsection |-> k[3], name |-> <<"n">>, text |-> x] :
        k \in UnitKeys, x \in UnitTexts }

InitGenerate ==
    /\ \E n \in 0..MaxGenUnits : gunits \in [1..n -> GenUnits]
    /\ gi = 0
    /\ gj = 0
    /\ glatex = <<>>
    /\ gstatus = "running"
    /\ TreeIdle /\ CheckIdle /\ SplitIdle /\ ParseIdle /\ WalkIdle /\ DocIdle /\ CfgIdle /\ OtherIdle

\* the unit of the current iteration
GenUnit == gunits[gi + 1]

\* the loop is at the top of the body for a unit
AtUnit == gstatus = "running" /\ gi < Len(gunits) /\ gj = 0

\* the position after paragraph j of the current unit
AfterParagraph(j) ==
    IF j >= Len(GenUnit.text)
    THEN gi' = gi + 1 /\ gj' = 0
    ELSE gi' = gi /\ gj' = j + 1

\* chapter != 0: the heading, the label and the counter
GenHeader ==
    /\ AtUnit
    /\ GenUnit.chapter # 0
    /\ glatex' = glatex \o UnitHeader(HeadingOf(GenUnit), GenUnit.name)
    /\ AfterParagraph(0)
    /\ UNCHANGED <<gunits, gstatus>>
    /\ UNCHANGED nonGenVars

\* chapter == 0: a message is printed and the unit is left out
GenSkip ==
    /\ AtUnit
    /\ GenUnit.chapter = 0
    /\ gi' = gi + 1
    /\ UNCHANGED <<gunits, gj, glatex, gstatus>>
    /\ UNCHANGED nonGenVars

\* the result of one paragraph: the pre-pass, then the parser on latex_doc
Compiled == syntax_interpreter(glatex, special_character_replacement(GenUnit.text[gj]))

AtParagraph == gstatus = "running" /\ gi < Len(gunits) /\ gj >= 1

GenParagraph ==
    /\ AtParagraph
    /\ Compiled.status = "ok"
    /\ glatex' = Compiled.ldoc
    /\ AfterParagraph(gj)
    /\ UNCHANGED <<gunits, gstatus>>
    /\ UNCHANGED nonGenVars

\* the parser raises: the exception leaves add_document_content
GenRaise ==
    /\ AtParagraph
    /\ Compiled.status # "ok"
    /\ glatex' = Compiled.ldoc
    /\ gstatus' = Compiled.status
    /\ UNCHANGED <<gunits, gi, gj>>
    /\ UNCHANGED nonGenVars

GenReturn ==
    /\ gstatus = "running"
    /\ gi = Len(gunits)
    /\ gstatus' = "ok"
    /\ UNCHANGED <<gunits, gi, gj, glatex>>
    /\ UNCHANGED nonGenVars

NextGenerate ==
    \/ GenHeader
    \/ GenSkip
    \/ GenParagraph
    \/ GenRaise
    \/ GenReturn

SpecGenerate == InitGenerate /\ [][NextGenerate]_vars

----------------------------------------------------------------------------
(* document_processor.DocumentProcessor.validate_document_brackets *)

\* at most this many units in document_dict
MaxDocUnits == 2

\* check_chinese_square_brackets_pairs as a function (the loop of the checker)
RECURSIVE CheckFrom(_, _, _)
CheckFrom(t, i, stk) ==
    IF i > Len(t) THEN FinalResult(stk) = "true"
    ELSE IF t[i] = LB THEN CheckFrom(t, i + 1, Append(stk, t[i]))
    ELSE IF t[i] = RB
         THEN IF Len(stk) = 0 THEN FALSE
              ELSE IF stk[Len(stk)] # LB THEN FALSE
              ELSE CheckFrom(t, i + 1, SubSeq(stk, 1, Len(stk) - 1))
    ELSE CheckFrom(t, i + 1, stk)

check_chinese_square_brackets_pairs(t) == CheckFrom(t, 1, <<>>)

\* a reference token with the full-width colon
FullWidthRef == <<LB, KwRef, FCOLON, "a", RB>>

\* the paragraphs of the units
DocParagraphs ==
    { <<"a">>,
      <<LB, "a">>,
      <<URL, URL, "a", RBRACE, RBRACE>>,
      <<URL, "a">>,
      <<REF, "a", PAR, RBRACE>>,
      <<URL, "a", NL, URL, "a", RBRACE>>,
      FullWidthRef \o FullWidthRef,
      Span(<<"a">>) \o Span(<<"a">>) \o Span(<<"a">>) \o Span(<<"a">>),
      Span(<<"a">>) \o Span(<<"a">>) \o Span(<<"a">>) \o Span(<<"a">>) \o Span(<<"a">>) }

\* the paragraphs a text of two paragraphs begins with
FirstParagraphs ==
    { <<URL, "a">>,
      FullWidthRef \o FullWidthRef,
      Span(<<"a">>) \o Span(<<"a">>) \o Span(<<"a">>) \o Span(<<"a">>) \o Span(<<"a">>) }

\* unit['text']
DocTexts ==
    {<<>>} \cup { <<x>> : x \in DocParagraphs }
           \cup { <<x, y>> : x \in FirstParagraphs, y \in DocParagraphs }

InitValidate ==
    /\ \E n \in 0..MaxDocUnits : dunits \in [1..n -> DocTexts]
    /\ di = 0
    /\ dj = 0
    /\ all_errors = <<>>
    /\ dout = <<>>
    /\ dlog = <<>>
    /\ dstatus = "running"
    /\ derr = "none"
    /\ TreeIdle /\ CheckIdle /\ SplitIdle /\ ParseIdle /\ WalkIdle /\ GenIdle /\ CfgIdle /\ OtherIdle

\* the loops are at a unit, at a paragraph of it
Scanning == dstatus = "running" /\ di < Len(dunits)
ScanningParagraph == Scanning /\ dj < Len(dunits[di + 1])
Paragraph == dunits[di + 1][dj + 1]

\* f"{serial}第{paragraph_n}段: ..."
Diagnostic(kind) == [unit |-> di + 1, paragraph |-> dj + 1, kind |-> kind]

\* the position after the current paragraph
NextParagraph ==
    IF dj + 1 >= Len(dunits[di + 1])
    THEN di' = di + 1 /\ dj' = 0
    ELSE di' = di /\ dj' = dj + 1

\* if unit.get('text') is false the unit has nothing to scan
DocSkip ==
    /\ Scanning
    /\ dunits[di + 1] = <<>>
    /\ di' = di + 1
    /\ UNCHANGED <<dunits, dj, all_errors, dout, dlog, dstatus, derr>>
    /\ UNCHANGED nonDocVars

\* the brackets of the paragraph are not paired: the AssertionError is raised
\* there and then
DocMismatch ==
    /\ ScanningParagraph
    /\ ~check_chinese_square_brackets_pairs(Paragraph)
    /\ dstatus' = "AssertionError"
    /\ derr' = "brackets"
    /\ UNCHANGED <<dunits, di, dj, all_errors, dout, dlog>>
    /\ UNCHANGED nonDocVars

\* the brackets are paired: validate_syntax_patterns, which gives its warning
\* to the logger, and all_errors.extend
DocParagraph ==
    /\ ScanningParagraph
    /\ check_chinese_square_brackets_pairs(Paragraph)
    /\ dlog' = IF ConsecutiveRefs(Paragraph)
               THEN Append(dlog, Diagnostic("consecutive-refs")) ELSE dlog
    /\ all_errors' = all_errors \o [i \in 1..Len(validate_syntax_patterns(Paragraph)) |->
                                        Diagnostic(validate_syntax_patterns(Paragraph)[i])]
    /\ NextParagraph
    /\ UNCHANGED <<dunits, dout, dstatus, derr>>
    /\ UNCHANGED nonDocVars

\* the keywords with the message of the consecutive markers among them
SeriousKindsWithMarkers ==
    {"nested-url", "incomplete-url", "bad-ref", "url-in-url", "too-many-markers"}

\* the keywords of serious_errors, by the messages that hold them
SeriousKinds == {"nested-url", "incomplete-url", "bad-ref", "url-in-url"}

serious_errors(errors) == SelectSeq(errors, LAMBDA e : e.kind \in SeriousKinds)

ScanOver == dstatus = "running" /\ di = Len(dunits)

\* the loops are over with nothing collected
DocReturn ==
    /\ ScanOver
    /\ all_errors = <<>>
    /\ dstatus' = "ok"
    /\ UNCHANGED <<dunits, di, dj, all_errors, dout, dlog, derr>>
    /\ UNCHANGED nonDocVars

\* the errors are printed under their header; none is serious
DocReport ==
    /\ ScanOver
    /\ all_errors # <<>>
    /\ serious_errors(all_errors) = <<>>
    /\ dout' = dout \o <<[unit |-> 0, paragraph |-> 0, kind |-> "header"]>> \o all_errors
    /\ dstatus' = "ok"
    /\ UNCHANGED <<dunits, di, dj, all_errors, dlog, derr>>
    /\ UNCHANGED nonDocVars

\* the errors are printed under their header; a serious one makes the pass raise
DocReportRaise ==
    /\ ScanOver
    /\ all_errors # <<>>
    /\ serious_errors(all_errors) # <<>>
    /\ dout' = dout \o <<[unit |-> 0, paragraph |-> 0, kind |-> "header"]>> \o all_errors
    /\ dstatus' = "AssertionError"
    /\ derr' = "serious"
    /\ UNCHANGED <<dunits, di, dj, all_errors, dlog>>
    /\ UNCHANGED nonDocVars

NextValidate ==
    \/ DocSkip
    \/ DocMismatch
    \/ DocParagraph
    \/ DocReturn
    \/ DocReport
    \/ DocReportRaise

SpecValidate == InitValidate /\ [][NextValidate]_vars

----------------------------------------------------------------------------
(* config/settings.load_module_config: modules.json is opened as UTF-8 text,
   parsed, and its two tables are returned; the defaults when the file is
   not there or json.load raises JSONDecodeError *)

Colours == {"green", "orange", "red"}

\* default_modules and default_traditional
DefaultModules == [n \in BoxNames |-> BOX_DICT(n)]
DefaultTraditional ==
    [n \in {"mingcijieshi.t", "caozuobuzhou.t", "shiyongjianyi.t", "bianzhedehua.t",
            "jiuyijianyi.t"} |->
        CASE n \in {"mingcijieshi.t", "caozuobuzhou.t"} -> "green"
          [] n = "shiyongjianyi.t" -> "orange"
          [] OTHER -> "red"]

\* the tables a file can hold under one of its keys
FileTables ==
    UNION { [d -> {"green", "red"}] : d \in SUBSET {"mingcijieshi", "xinmokuai"} }

EmptyTable == [n \in {} |-> "green"]

\* what modules.json can be: not there; bytes that are no UTF-8 text; text
\* that is no JSON; a JSON value that is no object; an object, with or without
\* the keys 'modules' and 'modules_traditional'
File(kind, hm, m, ht, t) ==
    [kind |-> kind, has_modules |-> hm, modules |-> m,
     has_traditional |-> ht, modules_traditional |-> t]

ConfigFiles ==
    { File(k, FALSE, EmptyTable, FALSE, EmptyTable) :
        k \in {"missing", "undecodable", "malformed", "nonobject"} }
    \cup { File("object", TRUE, m, TRUE, t) : m \in FileTables, t \in FileTables }
    \cup { File("object", TRUE, m, FALSE, EmptyTable) : m \in FileTables }
    \cup { File("object", FALSE, EmptyTable, TRUE, t) : t \in FileTables }
    \cup { File("object", FALSE, EmptyTable, FALSE, EmptyTable) }

InitConfig ==
    /\ cfile \in ConfigFiles
    /\ cboxes = <<>>
    /\ cstatus = "idle"
    /\ TreeIdle /\ CheckIdle /\ SplitIdle /\ ParseIdle /\ WalkIdle /\ GenIdle /\ DocIdle /\ OtherIdle

\* the exception the try block ends with, if any: open raises for a missing
\* file, the read for bytes that are no UTF-8, json.load for text that is no
\* JSON, config.get for a value that is no object
LoadException ==
    CASE cfile.kind = "missing" -> "FileNotFoundError"
      [] cfile.kind = "undecodable" -> "UnicodeDecodeError"
      [] cfile.kind = "malformed" -> "JSONDecodeError"
      [] cfile.kind = "nonobject" -> "AttributeError"
      [] OTHER -> "none"

\* except (FileNotFoundError, json.JSONDecodeError)
Caught == {"FileNotFoundError", "JSONDecodeError"}

\* config.get('modules', {}), config.get('modules_traditional', {})
LoadFile ==
    /\ cstatus = "idle"
    /\ LoadException = "none"
    /\ cboxes' = <<cfile.modules, cfile.modules_traditional>>
    /\ cstatus' = "loaded"
    /\ UNCHANGED cfile
    /\ UNCHANGED nonCfgVars

\* the except branch: the default tables
LoadDefaults ==
    /\ cstatus = "idle"
    /\ LoadException \in Caught
    /\ cboxes' = <<DefaultModules, DefaultTraditional>>
    /\ cstatus' = "loaded"
    /\ UNCHANGED cfile
    /\ UNCHANGED nonCfgVars

\* an exception the except clause does not take leaves the function
LoadRaise ==
    /\ cstatus = "idle"
    /\ LoadException \notin Caught \cup {"none"}
    /\ cstatus' = LoadException
    /\ UNCHANGED <<cfile, cboxes>>
    /\ UNCHANGED nonCfgVars

NextConfig ==
    \/ LoadFile
    \/ LoadDefaults
    \/ LoadRaise

SpecConfig == InitConfig /\ [][NextConfig]_vars

----------------------------------------------------------------------------
(* HandbookProcessor.process_all_handbooks and process_handbook *)

\* at most this many handbooks in HANDBOOKS
MaxHandbooks == 3

\* what process_all_documents does for a handbook: it returns, or one of
\* the exceptions of the pipeline leaves it
PipelineOutcomes == {"ok", "AssertionError", "NameError", "TypeError"}

\* what prepare_handbook_processing does: it returns True, or the copying of
\* the files raises
PrepareOutcomes == {"ok", "OSError"}

\* a preparation that raised never comes to the pipeline
Fates ==
    {[prepare |-> "ok", pipeline |-> o] : o \in PipelineOutcomes}
    \cup {[prepare |-> "OSError", pipeline |-> "none"]}

RECURSIVE FateSeqs(_)
FateSeqs(n) ==
    IF n = 0 THEN {<<>>}
    ELSE FateSeqs(n - 1) \cup
         {Append(p[1], p[2]) : p \in {q \in FateSeqs(n - 1) \X Fates : Len(q[1]) = n - 1}}

\* the names of the handbooks that were found, in the order of HANDBOOKS
Names(n) == [i \in 1..n |-> i]

InitHandbooks ==
    /\ fate \in FateSeqs(MaxHandbooks)
    /\ found = Names(Len(fate))
    /\ handbooks = <<>>
    /\ hi = 0
    /\ processors = <<>>
    /\ results = <<>>
    /\ hstatus = "idle"
    /\ TreeIdle /\ CheckIdle /\ SplitIdle /\ ParseIdle /\ WalkIdle
    /\ GenIdle /\ DocIdle /\ CfgIdle /\ LoadIdle /\ BookIdle /\ AgainIdle

\* the handbook of this iteration
InLoop == hstatus = "running" /\ hi <= Len(handbooks)

\* self.discover_handbooks(), and no handbook: return {}
HbNone ==
    /\ hstatus = "idle"
    /\ found = <<>>
    /\ handbooks' = found
    /\ hstatus' = "returned"
    /\ UNCHANGED <<found, fate, hi, processors, results>>
    /\ UNCHANGED nonHbVars

\* self.discover_handbooks(), results = {}, and into the loop
HbDiscover ==
    /\ hstatus = "idle"
    /\ found # <<>>
    /\ handbooks' = found
    /\ hi' = 1
    /\ results' = <<>>
    /\ hstatus' = "running"
    /\ UNCHANGED <<found, fate, processors>>
    /\ UNCHANGED nonHbVars

\* process_handbook: prepare_handbook_processing raises; it is called
\* before the try, so the exception leaves process_handbook and the loop
HbPrepareRaises ==
    /\ InLoop
    /\ fate[hi].prepare # "ok"
    /\ hstatus' = fate[hi].prepare
    /\ UNCHANGED <<found, fate, handbooks, hi, processors, results>>
    /\ UNCHANGED nonHbVars

\* an exception of the pipeline that is not caught
HbNotCaught ==
    /\ InLoop
    /\ fate[hi].prepare = "ok"
    /\ fate[hi].pipeline # "ok"
    /\ hstatus' = fate[hi].pipeline
    /\ UNCHANGED <<found, fate, handbooks, hi, processors, results>>
    /\ UNCHANGED nonHbVars

\* process_handbook: process_all_documents raises; except Exception logs the
\* error and returns None, and the loop goes on with results as it is
HbCaught ==
    /\ InLoop
    /\ fate[hi].prepare = "ok"
    /\ fate[hi].pipeline # "ok"
    /\ hi' = hi + 1
    /\ UNCHANGED <<found, fate, handbooks, processors, results, hstatus>>
    /\ UNCHANGED nonHbVars

\* process_handbook: process_all_documents returns; the processor is put
\* into self.processors and returned, and the loop puts it into results
HbProcessed ==
    /\ InLoop
    /\ fate[hi].prepare = "ok"
    /\ fate[hi].pipeline = "ok"
    /\ processors' = Append(processors, handbooks[hi])
    /\ results' = Append(results, handbooks[hi])
    /\ hi' = hi + 1
    /\ UNCHANGED <<found, fate, handbooks, hstatus>>
    /\ UNCHANGED nonHbVars

\* return results
HbReturn ==
    /\ hstatus = "running"
    /\ hi > Len(handbooks)
    /\ hstatus' = "returned"
    /\ UNCHANGED <<found, fate, handbooks, hi, processors, results>>
    /\ UNCHANGED nonHbVars

NextHandbooks ==
    \/ HbNone
    \/ HbDiscover
    \/ HbPrepareRaises
    \/ HbCaught
    \/ HbProcessed
    \/ HbReturn

SpecHandbooks == InitHandbooks /\ [][NextHandbooks]_vars

----------------------------------------------------------------------------
(* Properties of the tree build *)

BuildEnded == bstatus # "building"

IsChapterLevel(u) == u[2] = 0 /\ u[3] = 0
IsSectionLevel(u) == u[2] # 0 /\ u[3] = 0
IsSubsectionLevel(u) == u[3] # 0

\* the key a unit needs in the original collection, from its own fields
RequiredParent(u) ==
    IF IsSubsectionLevel(u) THEN <<u[1], u[2], 0>> ELSE <<u[1], 0, 0>>

ParentPresent(u) == IsChapterLevel(u) \/ InDict(RequiredParent(u), units)

EveryParentPresent == \A i \in 1..Len(units) : ParentPresent(units[i])

NodeSet == {nodes[i] : i \in 1..Len(nodes)}

ChildrenOf(p, level) ==
    {n \in NodeSet : n.parent = p /\
        CASE level = "section" -> IsSectionLevel(n.id)
          [] level = "subsection" -> IsSubsectionLevel(n.id)
          [] OTHER -> IsChapterLevel(n.id)}

\* the tags of a group of siblings count 1..n in the given field
Numbered(group, field) == {n.tag[field] : n \in group} = 1..Cardinality(group)

ContiguousTags ==
    /\ Numbered(ChildrenOf(RootId, "chapter"), 1)
    /\ \A p \in NodeSet :
          /\ Numbered(ChildrenOf(p.id, "section"), 2)
          /\ Numbered(ChildrenOf(p.id, "subsection"), 3)

\* C1: for a collection in ascending order in which every unit's required
\* parent key exists in the original collection, the build succeeds and the
\* canonical tags are contiguous per level: chapters 1..N, the sections under
\* each chapter 1..k, the subsections under each parent 1..m.  (A unit 0-0-0
\* is the malformed name of C2 and is left out of the collections the
\* statement is read for.)
C1_ContiguousTags ==
    (BuildEnded /\ EveryParentPresent /\ ~InDict(<<0, 0, 0>>, units))
        => (bstatus = "done" /\ ContiguousTags)

\* C2: a collection that contains the unit 0-0-0 makes the build raise the
\* naming error, which names that unit; the build never returns normally for
\* such a collection and creates no node for the unit.
C2_NamingErrorRaised ==
    InDict(<<0, 0, 0>>, units) =>
        /\ ~HasNode(nodes, <<0, 0, 0>>)
        /\ BuildEnded => /\ bstatus = "NameError"
                         /\ berr.kind = "NameError"
                         /\ berr.unit = <<0, 0, 0>>

C2_Witness ==
    /\ bstatus = "NameError"
    /\ berr.unit = <<0, 0, 0>>
    /\ Len(units) >= 3

\* C3: the build never gets past a section- or subsection-level unit whose
\* required parent key (from the unit's own original chapter/section) is
\* absent from the original collection: no node is created for it, the build
\* does not return normally, and the error raised at such a unit names the
\* unit and the missing parent; a unit whose parent key is in the original
\* collection is never refused for a missing parent, whatever the canonical
\* tags are.
C3_MissingParentRaised ==
    /\ \A i \in 1..Len(nodes) : ParentPresent(nodes[i].id)
    /\ \A i \in 1..Len(units) : (i < idx \/ bstatus = "done") => ParentPresent(units[i])
    /\ bstatus = "AssertionError" =>
          /\ ~IsChapterLevel(units[idx])
          /\ ~ParentPresent(units[idx])
          /\ berr.unit = units[idx]
          /\ berr.father = RequiredParent(units[idx])
          /\ ~HasNode(nodes, units[idx])
    /\ (BuildEnded /\ idx <= Len(units) /\ ~ParentPresent(units[idx]))
          => bstatus = "AssertionError"

C3_Witness ==
    /\ bstatus = "AssertionError"
    /\ IsSubsectionLevel(berr.unit)
    /\ berr.father = <<berr.unit[1], berr.unit[2], 0>>
    /\ Len(nodes) >= 2
    /\ \E i \in 1..Len(nodes) : nodes[i].tag # nodes[i].id

\* C17: from one processed unit to the next the chapter counter never
\* decreases and grows by one at most; the section counter goes back only
\* to 0 and only when a chapter-level unit is counted, the subsection counter
\* goes back only to 0 and only when a section-level unit is counted; a
\* chapter-level unit always sets the section counter to 0 and a
\* section-level unit always sets the subsection counter to 0; otherwise a
\* counter stays or grows by one.
C17_CounterStep ==
    /\ chapter_counter' \in {chapter_counter, chapter_counter + 1}
    /\ section_counter' \in {section_counter, section_counter + 1, 0}
    /\ subsection_counter' \in {subsection_counter, subsection_counter + 1, 0}
    /\ section_counter' < section_counter => chapter_counter' = chapter_counter + 1
    /\ subsection_counter' < subsection_counter => section_counter' = section_counter + 1
    /\ chapter_counter' = chapter_counter + 1 => section_counter' = 0
    /\ section_counter' = section_counter + 1
          => subsection_counter' = 0 /\ chapter_counter' = chapter_counter

C17_CounterResets == [][C17_CounterStep]_vars

\* a build that returned after a second chapter set the section counter back
\* from 1 to 0 and a section set the subsection counter back to 0
C17_Witness ==
    /\ bstatus = "done"
    /\ chapter_counter >= 2
    /\ section_counter = 0
    /\ subsection_counter = 0
    /\ \E i \in 1..Len(nodes) : nodes[i].tag[2] >= 1
    /\ \E i \in 1..Len(nodes) : nodes[i].tag[3] >= 1

\* C17 as stated: none of the three counters ever decreases
C17_Monotone ==
    [][/\ chapter_counter' >= chapter_counter
       /\ section_counter' >= section_counter
       /\ subsection_counter' >= subsection_counter]_vars

\* the entry of the unit with the original serial id
EntryOf(id) == ordered[CHOOSE i \in 1..Len(ordered) : ordered[i].id = id]

NodeOf(id) == nodes[CHOOSE i \in 1..Len(nodes) : nodes[i].id = id]

Position(e) == <<e.chapter, e.section, e.subsection>>

\* C18: for units in ascending original order on which the build succeeds,
\* the walk emits the units in their input order, none twice and (at the end)
\* none left out; the fields of every emitted unit are the numbers of its
\* canonical tag and its key is the tag; the entry of a unit numbered c-s-0
\* (s > 0) hangs under the unit numbered c-0-0 and the entry of a unit
\* numbered c-s-z (z > 0) under the unit numbered c-s-0.
C18_OrderedWalk ==
    /\ wstatus = "idle" => ordered = <<>>
    /\ Len(ordered) <= Len(units)
    /\ wstatus = "done" => Len(ordered) = Len(units)
    /\ \A i \in 1..Len(ordered) :
          /\ ordered[i].id = units[i]
          /\ Position(ordered[i]) = NodeOf(units[i]).tag
          /\ ordered[i].key = FormatTag(NodeOf(units[i]).tag)
          /\ ordered[i].serial = ordered[i].key
          /\ (ordered[i].section > 0 /\ ordered[i].subsection = 0)
                => Position(EntryOf(NodeOf(units[i]).parent))
                      = <<ordered[i].chapter, 0, 0>>
          /\ ordered[i].subsection > 0
                => Position(EntryOf(NodeOf(units[i]).parent))
                      = <<ordered[i].chapter, ordered[i].section, 0>>

\* a walk is over for five units with gaps in their original numbers: two
\* chapters, a section and subsections under a section and under a chapter
C18_Witness ==
    /\ wstatus = "done"
    /\ Len(ordered) = 5
    /\ \E i \in 1..Len(ordered) : Position(ordered[i]) # ordered[i].id
    /\ \E i \in 1..Len(ordered) : ordered[i].chapter = 2
    /\ \E i \in 1..Len(ordered) : ordered[i].section > 0 /\ ordered[i].subsection > 0
    /\ \E i \in 1..Len(ordered) : ordered[i].section = 0 /\ ordered[i].subsection > 0

----------------------------------------------------------------------------
(* Properties of the bracket validator *)

RECURSIVE Count(_, _)
\* the number of occurrences of a token in a text
Count(tok, s) ==
    IF s = <<>> THEN 0
    ELSE (IF Head(s) = tok THEN 1 ELSE 0) + Count(tok, Tail(s))

\* openers minus closers
BracketDepth(s) == Count(LB, s) - Count(RB, s)

WellFormed(s) ==
    /\ \A k \in 0..Len(s) : BracketDepth(SubSeq(s, 1, k)) >= 0
    /\ BracketDepth(s) = 0

\* C4: the validator returns true if and only if the running depth of the
\* brackets (openers minus closers) is non-negative at every prefix and zero
\* at the end; the other characters do not count.
C4_ValidatorIffWellFormed ==
    /\ vresult \in {"true", "false"} => (vresult = "true" <=> WellFormed(text))
    /\ vresult = "running" => /\ Len(stack) = BracketDepth(SubSeq(text, 1, pos - 1))
                              /\ WellFormed(SubSeq(text, 1, pos - 1))
                                    \/ Len(stack) > 0

C4_Witness ==
    /\ vresult = "false"
    /\ Count(LB, text) = Count(RB, text)
    /\ Count(LB, text) >= 2
    /\ Count("a", text) >= 1

----------------------------------------------------------------------------
(* Properties of the list splitter *)

RECURSIVE DepthAfter(_, _)
\* the nesting depth of \url{...} after a text, when it starts at depth d: the
\* opener goes one level down, a closing brace inside a span one level up
DepthAfter(s, d) ==
    IF s = <<>> THEN d
    ELSE DepthAfter(Tail(s),
                    IF Head(s) = URL THEN d + 1
                    ELSE IF Head(s) = RBRACE /\ d > 0 THEN d - 1
                    ELSE d)

\* the depth at which the token at position p is met
DepthAt(s, p) == DepthAfter(SubSeq(s, 1, p - 1), 0)

Unclosed(s) == DepthAfter(s, 0) > 0

NoCutInsideSpan == \A p \in cuts : DepthAt(stext, p) = 0

\* C5 (as claimed): no item ends at a semicolon inside a protected span, and
\* no returned item contains an un-closed protected span.
C5_NoUnclosedItem ==
    sdone => /\ NoCutInsideSpan
             /\ \A j \in 1..Len(items) : ~Unclosed(items[j])

\* C5 (amended): no item ends at a semicolon inside a protected span, every
\* separator outside the spans ends one, and every returned item but the
\* last has its protected spans closed; the last item has an un-closed span
\* exactly when the input text leaves one un-closed.
C5_NoSplitInsideSpan ==
    /\ NoCutInsideSpan
    /\ \A p \in 1..(si - 1) :
          (stext[p] \in Semis /\ DepthAt(stext, p) = 0) => p \in cuts
    /\ sdone => /\ \A j \in 1..(Len(items) - 1) : ~Unclosed(items[j])
                /\ Unclosed(stext) <=> (items # <<>> /\ Unclosed(items[Len(items)]))

C5_Witness ==
    /\ sdone
    /\ Len(items) = 2
    /\ \E p \in 1..Len(stext) : stext[p] \in Semis /\ DepthAt(stext, p) > 0
    /\ cuts # {}
    /\ ~Unclosed(stext)

RECURSIVE JoinItems(_)
\* the items in one text, the separator put back between them
JoinItems(its) ==
    IF its = <<>> THEN <<>>
    ELSE IF Len(its) = 1 THEN its[1]
    ELSE its[1] \o <<SEMI>> \o JoinItems(Tail(its))

RECURSIVE Squeeze(_)
\* a text modulo whitespace and the width of its semicolons
Squeeze(s) ==
    IF s = <<>> THEN <<>>
    ELSE IF Head(s) = SPACE THEN Squeeze(Tail(s))
    ELSE <<IF Head(s) = FSEMI THEN SEMI ELSE Head(s)>> \o Squeeze(Tail(s))

\* the positions of the separators outside the protected spans
Separators(s) == {p \in 1..Len(s) : s[p] \in Semis /\ DepthAt(s, p) = 0}

\* some separator has nothing but whitespace between it and the previous
\* separator (or the start), or between it and the next one (or the end)
HasEmptyItem(s) ==
    \E p \in Separators(s) :
        \/ \A q \in 1..(p - 1) :
              (\A r \in (q + 1)..(p - 1) : r \notin Separators(s))
                  => (q \in Separators(s) \/ s[q] = SPACE)
        \/ \A q \in (p + 1)..Len(s) :
              (\A r \in (p + 1)..(q - 1) : r \notin Separators(s))
                  => (q \in Separators(s) \/ s[q] = SPACE)

\* C6 (as claimed): the items joined with the separator reconstruct the
\* trimmed input modulo whitespace (and the width of the semicolons).
C6_RoundTrip ==
    sdone => Squeeze(JoinItems(items)) = Squeeze(Strip(stext))

\* C6 (amended): when no separator outside the protected spans bounds an
\* empty or whitespace-only item (no leading, trailing or doubled separator),
\* the items joined with the separator reconstruct the trimmed input modulo
\* whitespace and the width of the semicolons.
C6_RoundTripNoEmptyItem ==
    (sdone /\ ~HasEmptyItem(stext))
        => Squeeze(JoinItems(items)) = Squeeze(Strip(stext))

C6_Witness ==
    /\ sdone
    /\ ~HasEmptyItem(stext)
    /\ Len(items) >= 2
    /\ \E p \in 1..Len(stext) : stext[p] = SPACE
    /\ \E p \in 1..Len(stext) : stext[p] = URL

----------------------------------------------------------------------------
(* Properties of the markup compiler *)

Finished == pstatus \notin {"idle", "running"}

\* the blocks of a sink: what is left when the empty texts and the paragraph
\* breaks are taken out
IsBlock(it) == it # NoEscape(<<>>) /\ it # ParCommand
Blocks(snk) == SelectSeq(snk, IsBlock)

IsPrefix(u, v) == Len(u) <= Len(v) /\ SubSeq(v, 1, Len(u)) = u

NoBrackets(c) == \A i \in 1..Len(c) : c[i] \notin {LB, RB}

\* a bare span the parser has no other branch for
BareKeywords ==
    UNORDERED_LIST_NAME \cup ORDERED_LIST_NAME \cup {<<KwTitle>>, <<KwSubtitle>>, <<KwBreak>>}
    \cup {<<b>> : b \in BoxNames}

IsBareSpan(t) ==
    /\ Len(t) >= 2 /\ t[1] = LB /\ t[Len(t)] = RB
    /\ LET c == SubSeq(t, 2, Len(t) - 1)
       IN  NoBrackets(c) /\ ~ColonMatch(c) /\ c \notin BareKeywords

IsExplicitBold(t) ==
    /\ Len(t) >= 4 /\ SubSeq(t, 1, 3) = <<LB, KwBold, COLON>> /\ t[Len(t)] = RB
    /\ LET c == SubSeq(t, 4, Len(t) - 1)
       IN  NoBrackets(c) /\ ~ColonMatch(c)

\* the text that is to be bold
BoldContent(t) ==
    IF IsExplicitBold(t) THEN SubSeq(t, 4, Len(t) - 1) ELSE SubSeq(t, 2, Len(t) - 1)

\* C7: compiling the bare span 【c】 and compiling 【加粗:c】 (c without colon,
\* not a keyword, non-empty and without blanks around it) both end normally
\* and leave exactly one block in the sink, the same for both: the bold block
\* of c as the pre-pass rewrites it.
C7_BareEqualsExplicitBold ==
    (/\ pmode = "compile"
     /\ Finished
     /\ IsBareSpan(para) \/ IsExplicitBold(para)
     /\ BoldContent(para) # <<>>
     /\ Strip(BoldContent(para)) = BoldContent(para))
    => /\ pstatus = "ok"
       /\ Blocks(sink) = <<DefaultBold(special_character_replacement(BoldContent(para)))>>

\* the first span of the compiled string is an image directive
FirstSpanIsImage(t) ==
    /\ BracketsMatch(t)
    /\ ColonMatch(Content(t))
    /\ SyntaxOf(Content(t)) = <<KwImage>>

\* C8: when the first span of a string is 【图片:key】 and the run ends
\* normally, the sink holds the text before the span, a paragraph break and
\* one figure, whose caption is the text after the span, or the key when
\* there is none; and wherever a figure is appended, nothing is appended
\* after it but the ends of the boxes it lies in.
C8_ImageTerminal ==
    /\ (pstatus = "ok" /\ FirstSpanIsImage(pstring))
       => sink = <<NoEscape(Pre(pstring)), ParCommand,
                   Figure(EmphasisOf(Content(pstring)),
                          IF After(pstring) # <<>> THEN After(pstring)
                          ELSE EmphasisOf(Content(pstring)))>>
    /\ \A i \in 1..Len(sink) : \A j \in (i + 1)..Len(sink) :
          sink[i].k = "figure" => sink[j] = BoxEnd

\* an image span with a span in the text after it has been compiled
C8_Witness ==
    /\ pstatus = "ok"
    /\ FirstSpanIsImage(pstring)
    /\ BracketsMatch(After(pstring))
    /\ sink[Len(sink)] = Figure(EmphasisOf(Content(pstring)), After(pstring))

\* the directives after which the parser goes on: heading with argument,
\* bold, footnote, and the default-bold shorthand
NonTerminal(c) ==
    IF ColonMatch(c)
    THEN SyntaxOf(c) \in {<<KwTitle>>, <<KwSubtitle>>, <<KwBold>>, <<KwFootnote>>}
    ELSE c \notin (BareKeywords \ {<<KwBreak>>})

\* the blocks of the directive itself
OwnBlocks(c) ==
    IF ~ColonMatch(c) THEN <<DefaultBold(c)>>
    ELSE IF SyntaxOf(c) = <<KwBold>> THEN <<BoldText(EmphasisOf(c))>>
    ELSE IF SyntaxOf(c) = <<KwFootnote>> THEN <<FootnoteText(EmphasisOf(c))>>
    ELSE IF SyntaxOf(c) = <<KwTitle>>
         THEN <<VSpace("1ex"), TitleLine(EmphasisOf(c)), ParCommand, StepCounter, VSpace("1ex")>>
    ELSE <<VSpace("0.4ex"), SubtitleLine(EmphasisOf(c)), ParCommand, VSpace("0.4ex")>>

\* every span the parser comes to is a non-terminal directive
RECURSIVE OnlyNonTerminal(_)
OnlyNonTerminal(t) ==
    \/ ~HasLB(t)
    \/ /\ BracketsMatch(t)
       /\ NonTerminal(Content(t))
       /\ OnlyNonTerminal(After(t))

\* before the span, the span, after the span
RECURSIVE InOrder(_)
InOrder(t) ==
    IF ~HasLB(t) THEN <<NoEscape(t), ParCommand>>
    ELSE <<NoEscape(Pre(t)), ParCommand>> \o OwnBlocks(Content(t)) \o InOrder(After(t))

\* C9: for a string all of whose spans are non-terminal directives, the sink
\* is at every moment a prefix of: the blocks of the text before the first
\* span, the directive's own blocks, the blocks of the text after it (in the
\* same order, span by span); and it is the whole of it when the run ends
\* normally.
C9_EmissionOrder ==
    (pmode # "raw" /\ HasLB(pstring) /\ OnlyNonTerminal(pstring))
    => /\ IsPrefix(sink, InOrder(pstring))
       /\ pstatus = "ok" => sink = InOrder(pstring)

\* a directive with text before it and a span after it has been compiled
C9_Witness ==
    /\ pstatus = "ok"
    /\ HasLB(pstring) /\ OnlyNonTerminal(pstring)
    /\ ColonMatch(Content(pstring))
    /\ EmphasisOf(Content(pstring)) # <<>>
    /\ BracketsMatch(After(pstring))
    /\ Len(sink) > 5

\* a colon, and a keyword outside the closed set
UnknownKeyword(c) ==
    /\ ColonMatch(c)
    /\ SyntaxOf(c) \notin ColonKeywords
    /\ ~IsBoxName(SyntaxOf(c))

\* the log ends with the report of the syntax and at least one suggestion
ReportedLast(syn) ==
    \E n \in 1..2 :
        /\ Len(plog) >= n + 2
        /\ plog[Len(plog) - n - 1] = LogEntry("error", "unsupported-syntax", syn)
        /\ plog[Len(plog) - n] = LogEntry("info", "possible-solutions", <<>>)
        /\ \A i \in (Len(plog) - n + 1)..Len(plog) : plog[i].lvl = "info"

\* the run has ended with the unknown-directive error of the call on top
RaisedUnknown ==
    /\ pstatus = "TypeError"
    /\ pstack # <<>> /\ pstack[1].op = "call"
    /\ BracketsMatch(pstack[1].s)
    /\ UnknownKeyword(Content(pstack[1].s))
    /\ perr = [kind |-> "TypeError", serial |-> pserial,
               syntax |-> SyntaxOf(Content(pstack[1].s))]
    /\ ReportedLast(SyntaxOf(Content(pstack[1].s)))

C10_State ==
    /\ pstatus = "TypeError" => RaisedUnknown
    /\ (Finished /\ ~SevereError(pstring) /\ BracketsMatch(pstring)
        /\ UnknownKeyword(Content(pstring)))
       => pstatus = "TypeError" /\ sink = <<>>

C10_Step ==
    (Dispatching /\ UnknownKeyword(Content(S)))
    => pstatus' = "TypeError" /\ sink' = sink

\* C10: a call of the parser that comes to a span with a colon whose keyword
\* (the text before the first colon) is not in the closed set always raises
\* the unknown-directive error, which names that keyword and the unit; the
\* syntax and suggestions are reported to the log just before, and nothing is
\* appended to the sink by that call.
C10_UnknownDirective == []C10_State /\ [][C10_Step]_vars

\* an unknown directive was met after a block had been appended
C10_Witness ==
    /\ RaisedUnknown
    /\ Blocks(sink) # <<>>
    /\ pstack[1].s # pstring

\* the exceptions a call of the parser raises
ParseErrors == {"ValueError", "AttributeError", "AssertionError", "TypeError"}

Raised == pstatus \in ParseErrors

\* C13: a step of the parser only appends to the sink, one block at most;
\* the step in which a call raises (unknown directive, missing asset, severe
\* syntax, unmatched brackets) appends nothing and takes nothing back, and
\* after it the sink stays as it is: what was pending is never appended.
C13_Step ==
    /\ IsPrefix(sink, sink')
    /\ Len(sink') <= Len(sink) + 1
    /\ (~Raised /\ Raised') => sink' = sink
    /\ Raised => sink' = sink /\ pstatus' = pstatus

C13_ErrorContract == [][C13_Step]_vars

\* a nested call has raised after blocks were appended, with appends of the
\* enclosing calls still pending
C13_Witness ==
    /\ Raised
    /\ Len(sink) >= 2
    /\ Len(pstack) >= 2
    /\ \E i \in 2..Len(pstack) : pstack[i].op = "emit"
    /\ pstatus \in {"TypeError", "AssertionError", "ValueError"}

\* the first span of the call at hand is empty
EmptySpanAhead == Dispatching /\ Content(S) = <<>>

\* the coloured bold of an empty content
EmptyBold == NoEscape(<<TEXTBF, TEXTCOLOR>> \o BOLD_COLOR \o <<RBRACE, LBRACE, RBRACE, RBRACE>>)

\* C20: a call whose first span is empty (【】) does not raise: it leaves the
\* text before the span to parse, then the coloured bold of the empty content
\* to append, then the text after the span to parse; the default-bold
\* fallback applies to every content without a colon that is no keyword, so a
\* call that raises the unknown-syntax error always has a colon in its span.
C20_Step ==
    /\ EmptySpanAhead
          => /\ pstatus' = "running"
             /\ sink' = sink
             /\ pstack' = <<Call(Pre(S)), Emit(EmptyBold), Call(After(S))>> \o Tail(pstack)
    /\ (Dispatching /\ ~ColonMatch(Content(S))) => pstatus' = "running"

C20_State ==
    /\ pstatus = "TypeError" => ColonMatch(Content(pstack[1].s))
    /\ (pstatus = "ok" /\ BracketsMatch(pstring) /\ Content(pstring) = <<>>)
          => \E i \in 1..Len(sink) : sink[i] = EmptyBold

C20_EmptySpanIsBold == []C20_State /\ [][C20_Step]_vars

\* a paragraph that starts with an empty span and goes on with another span
\* was compiled to the end
C20_Witness ==
    /\ pstatus = "ok"
    /\ BracketsMatch(pstring)
    /\ Content(pstring) = <<>>
    /\ Pre(pstring) = <<>>
    /\ BracketsMatch(After(pstring))
    /\ sink[3] = EmptyBold
    /\ Len(sink) > 5

\* C20 as stated: a string whose first span is empty ends with the
\* unknown-syntax error
C20_EmptySpanRaises ==
    (Finished /\ ~SevereError(pstring) /\ BracketsMatch(pstring) /\ Content(pstring) = <<>>)
        => pstatus = "TypeError"

----------------------------------------------------------------------------
(* Properties of the pre-pass *)

\* the replacements in their order give special_character_replacement
PrepassIsReplacement == pmode = "terms" => pstring = special_character_replacement(para)

\* the dash is braced when the text has a reference word
BracedDashes(t) ==
    IF Contains(t, {KwRef}) /\ Contains(t, {DASH})
    THEN ReplaceAll(t, <<DASH>>, <<LBRACE, DASH, RBRACE>>) ELSE t

\* a reference token of either colon starts the text
RefStarts(t) == SpanStarts(t, KwRef, COLON) \/ SpanStarts(t, KwRef, FCOLON)

\* every reference token rewritten by itself: figure-style when the key names
\* an image and the token does not follow the figure prefix, generic otherwise
RECURSIVE EachRefRewritten(_, _)
EachRefRewritten(t, prev) ==
    IF t = <<>> THEN t
    ELSE IF RefStarts(t)
         THEN LET key == SubSeq(t, 4, SpanEnd(t) - 1)
              IN  (IF image_is_existed(key) /\ prev # KwFigure
                   THEN <<KwFigure, REF>> ELSE <<REF>>)
                  \o key \o <<RBRACE>>
                  \o EachRefRewritten(SubSeq(t, SpanEnd(t) + 1, Len(t)), RBRACE)
    ELSE <<Head(t)>> \o EachRefRewritten(Tail(t), Head(t))

\* the figure prefix twice before a reference
DoubledPrefix(t) ==
    \E i \in 1..(Len(t) - 2) : t[i] = KwFigure /\ t[i + 1] = KwFigure /\ t[i + 2] = REF

\* the figure prefix twice before a reference token
DoubledPrefixBefore(t) ==
    \E i \in 1..(Len(t) - 2) :
        t[i] = KwFigure /\ t[i + 1] = KwFigure /\ RefStarts(SubSeq(t, i + 2, Len(t)))

\* C14: the reference step rewrites each reference token to the figure-style
\* reference exactly when its key names an existing image and the token does
\* not already follow the figure prefix, and to the generic reference
\* otherwise; no prefix is doubled; the step applied to its own output
\* changes nothing.
C14_RewriteStep ==
    (pmode = "footnote" /\ pmode' = "references")
    => /\ pstring' = EachRefRewritten(BracedDashes(pstring), "")
       /\ ~DoubledPrefixBefore(pstring) => ~DoubledPrefix(pstring')
       /\ References(pstring') = pstring'

C14_ReferenceRewrite == [][C14_RewriteStep]_vars

\* the nesting of \url{ at position p of a text
Wrapped(t, p) == DepthAt(t, p) > 0

\* every bare URL outside a wrap in its own wrap, the wrapped ones as they are
RECURSIVE EachBareUrlWrapped(_, _)
EachBareUrlWrapped(t, i) ==
    IF i > Len(t) THEN <<>>
    ELSE IF UrlStarts(t, i) /\ ~Wrapped(t, i)
         THEN <<URL>> \o SubSeq(t, i, UrlEnd(t, i)) \o <<RBRACE>>
              \o EachBareUrlWrapped(t, UrlEnd(t, i) + 1)
    ELSE <<t[i]>> \o EachBareUrlWrapped(t, i + 1)

\* C15: the URL step wraps every bare URL that is not inside a \url{...}
\* once and leaves a wrapped URL as it is, so that the step applied to its
\* own output adds no wrap.
C15_UrlStep ==
    (pmode = "references" /\ pmode' = "urls")
    => /\ pstring' = EachBareUrlWrapped(pstring, 1)
       /\ Urls(pstring') = pstring'

C15_UrlWrapping == [][C15_UrlStep]_vars

----------------------------------------------------------------------------
(* Properties of load_module_config *)

\* the file is there and is not a JSON text
NotValidJson == cfile.kind \in {"undecodable", "malformed"}

\* C16: when modules.json is missing or is not valid JSON, loading does not
\* raise and returns the two default tables; when the file is a JSON object
\* with the two keys, the tables returned are the entries of the file.
C16_LoadModuleConfig ==
    cstatus # "idle" =>
        /\ (cfile.kind = "missing" \/ NotValidJson)
              => /\ cstatus = "loaded"
                 /\ cboxes = <<DefaultModules, DefaultTraditional>>
        /\ (cfile.kind = "object" /\ cfile.has_modules /\ cfile.has_traditional)
              => /\ cstatus = "loaded"
                 /\ cboxes = <<cfile.modules, cfile.modules_traditional>>

----------------------------------------------------------------------------
(* Properties of add_document_content *)

IsUnitHeading(it) == it.k = "command" /\ it.a[1] \in {"chapter", "section", "subsection"}

\* a major heading prints the counter
IsMajorHeading(it) ==
    it.k = "noescape" /\ \E p \in 1..Len(it.a) : it.a[p] = "\\arabic{"

\* a minor heading: the coloured bold line that prints no counter
IsMinorHeading(it) ==
    /\ it.k = "noescape"
    /\ Len(it.a) >= 2 + Len(LL_TITLE_COLOR)
    /\ SubSeq(it.a, 1, 2 + Len(LL_TITLE_COLOR)) = <<TEXTBF, TEXTCOLOR>> \o LL_TITLE_COLOR
    /\ ~IsMajorHeading(it)

\* the value of little_title after the first n items, as LaTeX counts it
RECURSIVE CounterAfter(_, _)
CounterAfter(doc, n) ==
    IF n = 0 THEN 0
    ELSE IF doc[n] = SetCounter THEN 1
    ELSE IF doc[n] = StepCounter THEN CounterAfter(doc, n - 1) + 1
    ELSE CounterAfter(doc, n - 1)

\* the place of the heading of the unit item i belongs to (0: none)
UnitStart(doc, i) ==
    IF \E h \in 1..i : IsUnitHeading(doc[h])
    THEN CHOOSE h \in 1..i :
            /\ IsUnitHeading(doc[h])
            /\ \A g \in (h + 1)..i : ~IsUnitHeading(doc[g])
    ELSE 0

\* item i is the k-th major heading of its unit
OrdinalInUnit(doc, i) ==
    Cardinality({ m \in (UnitStart(doc, i) + 1)..i : IsMajorHeading(doc[m]) })

\* C11: within one unit the k-th major heading, with or without argument,
\* prints k whatever was compiled before it: the counter is 1 after the
\* heading of every chapter, section or subsection unit, every major heading
\* is followed by one step of the counter before anything else is printed,
\* and nothing else touches the counter (minor headings and every other
\* directive leave it as it is).
C11_HeadingCounter ==
    /\ \A i \in 1..Len(glatex) :
          IsMajorHeading(glatex[i]) => CounterAfter(glatex, i - 1) = OrdinalInUnit(glatex, i)
    /\ \A i \in 1..Len(glatex) :
          IsUnitHeading(glatex[i])
          => /\ i + 2 <= Len(glatex)
             /\ CounterAfter(glatex, i + 2) = 1
    /\ \A i \in 1..Len(glatex) :
          IsMajorHeading(glatex[i])
          => /\ i + 2 <= Len(glatex)
             /\ glatex[i + 1] = ParCommand
             /\ CounterAfter(glatex, i + 2) = CounterAfter(glatex, i - 1) + 1
    /\ \A i \in 1..Len(glatex) :
          CounterAfter(glatex, i) # CounterAfter(glatex, i - 1)
          => i > 2 /\ (IsMajorHeading(glatex[i - 2]) \/ IsUnitHeading(glatex[i - 2]))

\* two units have been compiled; the second has two major headings, one of
\* them without argument, and a minor heading or a box between or before them
C11_Witness ==
    /\ gstatus = "ok"
    /\ \E i \in 1..Len(glatex) :
          /\ IsMajorHeading(glatex[i])
          /\ OrdinalInUnit(glatex, i) = 2
          /\ \E h \in 1..(UnitStart(glatex, i) - 1) :
                /\ IsUnitHeading(glatex[h])
                /\ \E m \in (h + 1)..(UnitStart(glatex, i) - 1) : IsMajorHeading(glatex[m])
          /\ \E m \in (UnitStart(glatex, i) + 1)..i :
                IsMinorHeading(glatex[m]) \/ glatex[m] = BoxLower

----------------------------------------------------------------------------
(* Properties of validate_document_brackets *)

DocEnded == dstatus \in {"ok", "AssertionError"}

\* the paragraphs of the document, as (unit, paragraph) places
Places == { <<u, q>> \in (1..Len(dunits)) \X (1..3) : q <= Len(dunits[u]) }

PlaceText(pl) == dunits[pl[1]][pl[2]]

Yields(t, kinds) ==
    \E i \in 1..Len(validate_syntax_patterns(t)) : validate_syntax_patterns(t)[i] \in kinds

\* the diagnostics of the link and reference commands
LinkKinds == {"nested-url", "incomplete-url", "bad-ref", "url-in-url"}

AllPaired == \A pl \in Places : check_chinese_square_brackets_pairs(PlaceText(pl))

\* C12: the validation pass raises if and only if some paragraph of some unit
\* has unpaired brackets or, all brackets being paired, some paragraph yields
\* a nested-link, incomplete-link or malformed reference/link diagnostic;
\* more than three closer-opener pairs in a paragraph are reported but do not
\* make the pass raise, and two adjacent reference tokens are only logged.
C12_SeverityPolicy ==
    DocEnded =>
        /\ dstatus = "AssertionError"
              <=> \/ ~AllPaired
                  \/ \E pl \in Places : Yields(PlaceText(pl), LinkKinds)
        /\ (dstatus = "AssertionError" /\ derr = "serious") <=>
              (AllPaired /\ \E pl \in Places : Yields(PlaceText(pl), LinkKinds))
        /\ (AllPaired /\ \A pl \in Places : ~Yields(PlaceText(pl), LinkKinds))
              => dstatus = "ok"

\* a pass over two units that returns normally although one paragraph has
\* more than three closer-opener pairs and another two adjacent references
C12_Witness ==
    /\ dstatus = "ok"
    /\ Len(dunits) = 2
    /\ \E pl \in Places : TooManyMarkers(PlaceText(pl))
    /\ \E pl \in Places : ConsecutiveRefs(PlaceText(pl))
    /\ \E i \in 1..Len(dout) : dout[i].kind = "too-many-markers"

\* C12 as stated: with the brackets of every paragraph paired, the pass raises
\* if and only if a paragraph yields a nested-link, incomplete-link, malformed
\* reference/link or more-than-three-pairs diagnostic
C12_MarkersSevere ==
    (DocEnded /\ AllPaired) =>
        (dstatus = "AssertionError"
            <=> \E pl \in Places : Yields(PlaceText(pl), LinkKinds \cup {"too-many-markers"}))

\* the places the scanner was run on: the paragraphs before the position
\* the pass has reached
Scanned == { pl \in Places : pl[1] <= di \/ (pl[1] = di + 1 /\ pl[2] <= dj) }

Printed(d) == \E j \in 1..Len(dout) : dout[j] = d

Logged(d) == \E j \in 1..Len(dlog) : dlog[j] = d

\* C19: when the pass is over, however it ended, every diagnostic the
\* scanner found in a paragraph has been printed and every warning it gave
\* has been logged.
C19_DiagnosticsSurfaced ==
    DocEnded =>
        \A pl \in Scanned :
            /\ \A k \in LinkKinds \cup {"too-many-markers"} :
                  Yields(PlaceText(pl), {k})
                  => Printed([unit |-> pl[1], paragraph |-> pl[2], kind |-> k])
            /\ ConsecutiveRefs(PlaceText(pl))
                  => Logged([unit |-> pl[1], paragraph |-> pl[2], kind |-> "consecutive-refs"])

----------------------------------------------------------------------------
(* the callout boxes *)

\* the first span of the string is a callout-box directive, with or without
\* a title
FirstSpanIsBox(t) ==
    /\ BracketsMatch(t)
    /\ IF ColonMatch(Content(t)) THEN IsBoxName(SyntaxOf(Content(t)))
       ELSE IsBoxName(Content(t))

BoxNameOf(t) == IF ColonMatch(Content(t)) THEN SyntaxOf(Content(t)) ELSE Content(t)

BoxColorOf(t) == BOX_DICT(BoxNameOf(t)[1])

\* the blocks that open the box of the first span
BoxHead(t) ==
    IF ColonMatch(Content(t))
    THEN <<BoxBegin(BoxColorOf(t), BoxNameOf(t)), BoxLabel(EmphasisOf(Content(t))),
           BoxTitle(EmphasisOf(Content(t))), BoxLower>>
    ELSE <<BoxBegin(BoxColorOf(t), BoxNameOf(t))>>

\* the blocks of the box body: the text after the span, recoloured and parsed
BoxBody(t) == syntax_interpreter(<<>>, ReplaceColor(After(t), BoxColorOf(t))).ldoc

\* a block \textbf{\textcolor{c}{...}}
IsEmphasis(it) ==
    /\ it.k = "noescape"
    /\ Len(it.a) >= 7
    /\ SubSeq(it.a, 1, 2) = <<TEXTBF, TEXTCOLOR>>
    /\ SubSeq(it.a, 4, 5) = <<RBRACE, LBRACE>>
    /\ SubSeq(it.a, Len(it.a) - 1, Len(it.a)) = <<RBRACE, RBRACE>>

ColorOfEmphasis(it) == it.a[3]

\* when the first span of a string is a callout-box directive and the run
\* ends normally, the sink holds the blocks of the text before the span, the
\* opening of the box, the blocks of the recoloured text after the span, and
\* the end of the box as its last block
C21_BoxBody ==
    (pstatus = "ok" /\ FirstSpanIsBox(pstring))
    => sink = syntax_interpreter(<<>>, Pre(pstring)).ldoc \o BoxHead(pstring)
              \o BoxBody(pstring) \o <<BoxEnd>>

\* C21: a callout-box directive, with or without a title, is terminal and
\* recolours its body: when the run ends normally the sink is the blocks of
\* the text before the span, the opening of the box, the blocks of the text
\* after the span parsed after replacing the default emphasis colour by the
\* colour of the box, and the end of the box with nothing after it; and
\* every emphasis block of the body carries the colour of the box.
C21_BoxRecolours ==
    (pstatus = "ok" /\ FirstSpanIsBox(pstring))
    => /\ sink = syntax_interpreter(<<>>, Pre(pstring)).ldoc \o BoxHead(pstring)
                 \o BoxBody(pstring) \o <<BoxEnd>>
       /\ \A i \in 1..Len(BoxBody(pstring)) :
             IsEmphasis(BoxBody(pstring)[i])
             => ColorOfEmphasis(BoxBody(pstring)[i]) = BoxColorOf(pstring)

\* a box whose body holds a short-form bold span, recoloured with the text
C21_Recoloured ==
    /\ pstatus = "ok" /\ pmode = "compile"
    /\ FirstSpanIsBox(pstring)
    /\ \E i \in 1..Len(sink) : \E j \in 1..Len(sink[i].a) :
          /\ sink[i].k = "noescape"
          /\ j + 1 <= Len(sink[i].a)
          /\ sink[i].a[j] = TEXTCOLOR
          /\ sink[i].a[j + 1] = BoxColorOf(pstring)

----------------------------------------------------------------------------
(* the order of the units and the two builders *)

Ascending(dict) == \A i \in 1..(Len(dict) - 1) : SerialLess(dict[i], dict[i + 1])

\* C22: for every list of names x-y-z, the order sort_by_serial returns,
\* which is the order of the keys of document_dict after
\* load_all_documents, is ascending in the triple (chapter, section,
\* subsection) compared lexicographically.
C22_SortedAscending == lstatus = "loaded" => Ascending(units)

\* what the sort does give: the same names, in an order that is ascending in
\* the key x * 10000 + y * 100 + z
C22_SortedByKey ==
    lstatus = "loaded"
    => /\ Len(units) = Len(files)
       /\ \A i \in 1..Len(files) : InDict(files[i], units)
       /\ \A i \in 1..(Len(units) - 1) :
             serial_compare(units[i]) <= serial_compare(units[i + 1])

\* C23: on every ordered collection of units, build_document_tree and
\* create_tree_from_dict end the same way: both raise the same kind of error
\* at the same unit (with the same nodes created before it), or both return
\* with the same node identifiers, the same tag and the same parent for
\* every node.
C23_BuildersAgree ==
    (book_status # "idle" /\ bstatus \notin {"idle", "building"})
    => /\ book_status = bstatus
       /\ book_err = berr
       /\ book_tree = nodes

\* both builders returned a tree of three nodes; both raised
C23_Witness ==
    /\ book_status = "done" /\ bstatus = "done"
    /\ Len(book_tree) >= 3
    /\ ~Ascending(units)

Tags(tree) == {FormatTag(tree[i].tag) : i \in 1..Len(tree)}

\* C24: whatever the order of the units, no two nodes of a tree being built
\* or built carry the same tag; so the walk over a tree that was built
\* writes one entry per unit, none over another, and
\* save_processed_documents, which names each file by the tag of its node,
\* writes one file per unit.
C24_DistinctTags ==
    /\ \A i \in 1..Len(nodes) : \A j \in 1..Len(nodes) :
          nodes[i].tag = nodes[j].tag => i = j
    /\ wstatus = "done"
       => /\ Len(ordered) = Len(units)
          /\ \A i \in 1..Len(units) : \E j \in 1..Len(ordered) : ordered[j].id = units[i]
    /\ book_status = "done" => Cardinality(Tags(book_tree)) = Len(units)

\* a dict that is not in ascending order was built, walked and saved
C24_Witness ==
    /\ lstatus = "given"
    /\ ~Ascending(units)
    /\ wstatus = "done"
    /\ Len(ordered) >= 3

C24_WitnessSaved ==
    /\ lstatus = "given"
    /\ ~Ascending(units)
    /\ book_status = "done"
    /\ Len(book_tree) >= 3

\* the unit of this iteration passed the check of its father in the dict
PassedFatherCheck ==
    /\ Building
    /\ \/ Serial[3] = 0 /\ Serial[2] # 0 /\ ~FatherMissing(SectionFather(Serial), units, nodes)
       \/ Serial[3] # 0 /\ ~FatherMissing(SubsectionFather(Serial), units, nodes)

FatherOf(serial) == IF serial[3] = 0 THEN SectionFather(serial) ELSE SubsectionFather(serial)

\* C26: when the units are iterated in the order sort_by_serial gave them,
\* every unit that passes the check of its father against the dict finds
\* the node of its father in the tree when its own node is created; no build
\* ends with treelib's error for a parent that is no node.
C26_ParentInserted ==
    lstatus = "loaded"
    => /\ PassedFatherCheck => HasNode(nodes, FatherOf(Serial))
       /\ bstatus # "NodeIDAbsentError"
       /\ book_status # "NodeIDAbsentError"

\* a build of units that sort_by_serial left out of ascending order, with a
\* node under a father
C26_Witness ==
    /\ lstatus = "loaded"
    /\ ~Ascending(units)
    /\ bstatus = "done"
    /\ \E i \in 1..Len(nodes) : nodes[i].parent # RootId

----------------------------------------------------------------------------
(* the renumbering, done twice *)

\* C25: for units in ascending order on which the build returned, the build
\* of a fresh tree from the ordered dict of the walk raises nothing, and
\* gives every unit the tag it already carries: the tag of the i-th node is
\* the key of the i-th entry, and when the build has returned there is a
\* node for every entry.
C25_Idempotent ==
    again_status = "again"
    => /\ bstatus \in {"building", "done"}
       /\ Len(nodes) <= Len(ordered)
       /\ \A i \in 1..Len(nodes) :
             /\ FormatTag(nodes[i].tag) = ordered[i].key
             /\ nodes[i].id = nodes[i].tag
       /\ bstatus = "done" => Len(nodes) = Len(ordered)

\* the second build has returned, for units of three levels that the first
\* build had renumbered
C25_Witness ==
    /\ again_status = "again"
    /\ bstatus = "done"
    /\ \E i \in 1..Len(ordered) : FormatTag(ordered[i].id) # ordered[i].key
    /\ \E i \in 1..Len(nodes) : nodes[i].tag[2] # 0 /\ nodes[i].tag[3] # 0
    /\ \E i \in 1..Len(nodes) : nodes[i].tag[2] = 0 /\ nodes[i].tag[3] > 1

----------------------------------------------------------------------------
(* the two unknown-syntax branches *)

\* the test of the last branch, negated: ":" in content or "：" in content
RECURSIVE ContentHasColon(_)
ContentHasColon(c) ==
    /\ c # <<>>
    /\ \/ Head(c) = COLON
       \/ Head(c) = FCOLON
       \/ ContentHasColon(Tail(c))

\* the call that runs next would take the last else of syntax_interpreter:
\* no colon_match, no list, heading or box keyword, and a colon in content
BareUnknownAhead ==
    /\ NoColon
    /\ Content(S) \notin UNORDERED_LIST_NAME \cup ORDERED_LIST_NAME
    /\ Content(S) \notin {<<KwTitle>>, <<KwSubtitle>>}
    /\ ~IsBoxName(Content(S))
    /\ ContentHasColon(Content(S))

\* the error entry report_syntax_error wrote last
LastError == plog[CHOOSE i \in 1..Len(plog) :
                     /\ plog[i].lvl = "error"
                     /\ \A j \in (i + 1)..Len(plog) : plog[j].lvl # "error"]

\* C27: no call of the parser comes to the unknown-syntax branch for a
\* content without colon_match; whenever the unknown-syntax error is raised,
\* the span of the raising call has a colon, and the error and the entry
\* written to the log name the keyword before the first colon (never the
\* whole content) and the identifier of the unit as it was passed in.
C27_OnlyColonUnknown ==
    /\ ~BareUnknownAhead
    /\ pstatus = "TypeError"
       => /\ ColonMatch(Content(S))
          /\ perr.syntax = SyntaxOf(Content(S))
          /\ perr.syntax # Content(S)
          /\ perr.serial = pserial
          /\ \E i \in 1..Len(plog) : plog[i].lvl = "error"
          /\ LastError.msg = "unsupported-syntax"
          /\ LastError.extra = SyntaxOf(Content(S))
          /\ LastError.serial = pserial

\* the unknown-syntax error for a span with two colons, after a span that
\* was compiled
C27_Witness ==
    /\ pstatus = "TypeError"
    /\ Len(SyntaxOf(Content(S))) = 1
    /\ ContentHasColon(EmphasisOf(Content(S)))
    /\ sink # <<>>
    /\ S # pstring

----------------------------------------------------------------------------
(* the begin and the end of the boxes *)

IsBoxBegin(it) ==
    /\ it.k = "noescape"
    /\ Len(it.a) >= 2
    /\ it.a[1] = "\\begin{" /\ it.a[2] = "module"

BoxBegins(snk) == Cardinality({i \in 1..Len(snk) : IsBoxBegin(snk[i])})

BoxEnds(snk) == Cardinality({i \in 1..Len(snk) : snk[i] = BoxEnd})

\* the begins and the ends the calls under way still have to append
BeginsPending == Cardinality({i \in 1..Len(pstack) : IsBoxBegin(pstack[i].item)})

EndsPending == Cardinality({i \in 1..Len(pstack) : pstack[i] = Emit(BoxEnd)})

\* C28: the boxes of the sink are balanced and nested: no part of the sink
\* from its start on holds more ends than begins; an end is the last block
\* of the call that appended its begin, so nothing but the ends of the
\* enclosing boxes is appended behind it; while the parser runs, every begin
\* without its end has its end pending in the call of its begin; when
\* the run ends normally there are as many ends as begins; and a begin is
\* left without its end only when the run ended with an exception.
C28_BoxesBalanced ==
    /\ \A n \in 0..Len(sink) : BoxEnds(SubSeq(sink, 1, n)) <= BoxBegins(SubSeq(sink, 1, n))
    /\ \A i \in 1..Len(sink) : \A j \in (i + 1)..Len(sink) :
          sink[i] = BoxEnd => sink[j] = BoxEnd
    /\ pstatus = "running"
       => BoxBegins(sink) + BeginsPending = BoxEnds(sink) + EndsPending
    /\ pstatus = "ok" => BoxBegins(sink) = BoxEnds(sink)
    /\ BoxBegins(sink) > BoxEnds(sink) => pstatus \notin {"ok", "idle"}

\* a box in the body of a box, both closed at the end of the run; a box
\* left open by an exception in its body
C28_Witness ==
    /\ pstatus = "ok"
    /\ BoxBegins(sink) = 2
    /\ BoxEnds(sink) = 2
    /\ sink[Len(sink)] = BoxEnd /\ sink[Len(sink) - 1] = BoxEnd

C28_WitnessRaised ==
    /\ pstatus \notin {"ok", "idle", "running"}
    /\ BoxBegins(sink) = 1
    /\ BoxEnds(sink) = 0

----------------------------------------------------------------------------
(* the end of the recursion *)

\* every opening bracket has a closing bracket somewhere behind it
WellClosed(t) ==
    \A i \in 1..Len(t) : t[i] = LB => \E j \in (i + 1)..Len(t) : t[j] = RB

\* string.count("【")
CountLB(t) == Cardinality({i \in 1..Len(t) : t[i] = LB})

\* the tasks a call left in its place
NewTasks == SubSeq(pstack', 1, Len(pstack') - Len(pstack) + 1)

\* a call with a bracket in its string, and every call it makes
C29_Step ==
    (WellClosed(pstring) /\ Calling /\ HasLB(S) /\ pstatus' = "running")
    => /\ Len(pstack') >= Len(pstack)
       /\ SubSeq(pstack', Len(pstack') - Len(pstack) + 2, Len(pstack')) = Tail(pstack)
       /\ \A i \in 1..Len(NewTasks) :
             NewTasks[i].op = "call" => CountLB(NewTasks[i].s) < CountLB(S)

\* the span is located in every call
C29_State ==
    (pmode \in {"compile", "parse"} /\ WellClosed(pstring))
    => /\ pstatus # "AttributeError"
       /\ \A i \in 1..Len(pstack) : pstack[i].op = "call" => WellClosed(pstack[i].s)
       /\ (Calling /\ HasLB(S)) => BracketsMatch(S)

\* C29: for a string in which every opening bracket has a closing bracket
\* behind it, every call of the parser on a string with a bracket locates a
\* span (no call raises for want of a match), every call it makes in turn is
\* on a string with fewer opening brackets than its own, and the outermost
\* call ends: it returns or an exception leaves it.
C29_Termination ==
    /\ []C29_State
    /\ [][C29_Step]_vars
    /\ (pmode \in {"compile", "parse"} /\ WellClosed(pstring))
          ~> (pstatus \notin {"idle", "running"})

\* a string of two spans was parsed to the end
C29_Witness ==
    /\ pmode = "parse"
    /\ WellClosed(pstring)
    /\ CountLB(pstring) >= 2
    /\ CountLB(After(pstring)) >= 1
    /\ pstatus = "ok"

----------------------------------------------------------------------------
(* the handbooks, one after the other *)

\* the handbooks among the first n whose pipeline returned
Completed(n) ==
    SelectSeq(SubSeq(handbooks, 1, n), LAMBDA h : fate[h].pipeline = "ok")

\* the pipeline of the handbook of this iteration raises
PipelineRaises == InLoop /\ fate[hi].prepare = "ok" /\ fate[hi].pipeline # "ok"

C30_Step ==
    PipelineRaises
    => /\ hstatus' = "running"
       /\ hi' = hi + 1
       /\ results' = results
       /\ processors' = processors

C30_State ==
    /\ hstatus = "running"
       => /\ results = Completed(hi - 1)
          /\ processors = Completed(hi - 1)
    /\ hstatus = "returned"
       => /\ hi = Len(handbooks) + 1 \/ handbooks = <<>>
          /\ handbooks = found
          /\ results = Completed(Len(handbooks))
          /\ processors = Completed(Len(handbooks))
    /\ hstatus \notin PipelineOutcomes

\* C30: process_all_handbooks takes the handbooks that were found one after
\* the other; an exception of process_all_documents for one of them is
\* caught in process_handbook: the loop goes on with the next handbook and
\* neither results nor self.processors changes; no exception of a pipeline
\* leaves process_all_handbooks; and when it returns, every handbook was
\* taken, and results and self.processors hold the handbooks whose pipeline
\* returned, and no other.
C30_FailureIsolation == []C30_State /\ [][C30_Step]_vars

\* three handbooks: the pipeline of the first raised, the second was
\* processed, the third raised, and the mapping was returned
C30_Witness ==
    /\ hstatus = "returned"
    /\ Len(handbooks) = 3
    /\ fate[1].pipeline = "AssertionError"
    /\ fate[2].pipeline = "ok"
    /\ fate[3].pipeline = "TypeError"
    /\ results = <<2>>

====
